---- MODULE Spec2Model ----
(***************************************************************************)
(* Model of deus: the fragility side (fragility.py: the function           *)
(* factories and their caches, the CachedFunction, the DamageState, the    *)
(* parsing of a fragility definition, the completion of the damage state   *)
(* lattice and the FragilityProvider), the raster wrapper                  *)
(* (rasterwrapper.py), the intensity providers with their alias and        *)
(* stacked decorators, and the exposure update with its losses and its     *)
(* parallel workers that consumes them.                                    *)
(*                                                                         *)
(* Strings whose characters the code inspects (the keys of a dataset) are  *)
(* sequences of one-character strings.  Python objects that are compared   *)
(* by reference (the CachedFunction instances) live in a heap, the         *)
(* sequence `functions`, and are named by their index in it.               *)
(***************************************************************************)
EXTENDS Integers, Sequences, FiniteSets, TLC

\* ------------------------------------------------------------------ bounds

\* Greatest number of D..._mean keys of one dataset of the input.
MaxKeys == 2

\* Number of steps of the probability grid: a probability p is held as the
\* integer p * Scale, and a building count as count * Scale^(updates so far).
Scale == 4

\* Greatest number of exposure updates (hazard events) of one run.
MaxEvents == 3

\* Greatest building count of one damage state of the initial exposure.
MaxCount == 1

\* Number of workers that update the cells of a snapshot in parallel.
Workers == 2

\* ---------------------------------------------------------------- alphabets

DigitString == <<"0", "1", "2", "3", "4", "5", "6", "7", "8", "9">>

\* \d of the regular expressions
IsDigit(c) == \E n \in 1..Len(DigitString) : DigitString[n] = c

\* int() of a one-digit string
DigitValue(c) == (CHOOSE n \in 1..Len(DigitString) : DigitString[n] = c) - 1

MeanSuffix == <<"_", "m", "e", "a", "n">>

StddevSuffix == <<"_", "s", "t", "d", "d", "e", "v">>

\* str.startswith
StartsWith(k, prefix) ==
    /\ Len(k) >= Len(prefix)
    /\ SubSeq(k, 1, Len(prefix)) = prefix

\* str.endswith
EndsWith(k, suffix) ==
    /\ Len(k) >= Len(suffix)
    /\ SubSeq(k, Len(k) - Len(suffix) + 1, Len(k)) = suffix

\* The value of "no match" (re.search returning None) and of "no provider".
None == "None"

\* re.search(r"(\d)_mean$", key): the digit right before a final "_mean".
\* group(1) of the match, or None.
ToStateMatch(key) ==
    IF /\ EndsWith(key, MeanSuffix)
       /\ Len(key) > Len(MeanSuffix)
       /\ IsDigit(key[Len(key) - Len(MeanSuffix)])
    THEN key[Len(key) - Len(MeanSuffix)]
    ELSE None

\* re.search(r"^D_?(\d)_", key): "D", an optional "_", one digit, "_".
\* group(1) of the match, or None.
FromStateMatch(key) ==
    IF Len(key) >= 4 /\ key[1] = "D" /\ key[2] = "_" /\ IsDigit(key[3])
       /\ key[4] = "_"
    THEN key[3]
    ELSE IF Len(key) >= 3 /\ key[1] = "D" /\ IsDigit(key[2]) /\ key[3] = "_"
         THEN key[2]
         ELSE None

\* key.replace("_mean", "_stddev"): every occurrence, left to right.
RECURSIVE ReplaceMeanByStddev(_)
ReplaceMeanByStddev(key) ==
    IF key = <<>> THEN <<>>
    ELSE IF StartsWith(key, MeanSuffix)
         THEN StddevSuffix
              \o ReplaceMeanByStddev(SubSeq(key, Len(MeanSuffix) + 1, Len(key)))
         ELSE <<key[1]>> \o ReplaceMeanByStddev(Tail(key))

\* str.upper() on the measure names that occur.
Upper(s) ==
    CASE s = "pga" -> "PGA"
      [] s = "Pga" -> "PGA"
      [] s = "mwh" -> "MWH"
      [] OTHER -> s

\* ------------------------------------------------------- dataset (a dict)

\* A dataset is [taxonomy, imt, imu, items], items being its remaining
\* entries in the order of the file, each [key, value].
HasKey(dataset, key) ==
    \E n \in 1..Len(dataset.items) : dataset.items[n].key = key

\* dataset[key] of a key that is present
ValueOf(dataset, key) ==
    dataset.items[CHOOSE n \in 1..Len(dataset.items) :
                      dataset.items[n].key = key].value

\* [k for k in dataset.keys() if k.startswith("D") and k.endswith("_mean")]
MeanKeys(dataset) ==
    LET isMean(k) == StartsWith(k, <<"D">>) /\ EndsWith(k, MeanSuffix)
        keysOf == [n \in 1..Len(dataset.items) |-> dataset.items[n].key]
    IN SelectSeq(keysOf, isMean)

\* ------------------------------------------------- the function heap

\* The families of SUPPORTED_FRAGILITY_FUNCTION_FACTORIES.
Shapes == {"logncdf", "normcdf"}

\* The empty dict.
EmptyDict == [x \in {} |-> 0]

\* d[k] = v of a dict
DictSet(d, k, v) == [x \in DOMAIN d \cup {k} |-> IF x = k THEN v ELSE d[x]]

\* round(10 * ln(v)) of the positive intensities the model evaluates at.
Ln10(v) ==
    CASE v = 1 -> 0
      [] v = 3 -> 11
      [] v = 20 -> 30

\* The standard normal cdf at z = num / den (den > 0) on the probability
\* grid, by the piecewise linear form 1/2 + z/4 cut to [0, 1].
Phi(num, den) ==
    IF 2 * den + num <= 0 THEN 0
    ELSE IF (Scale * (2 * den + num)) \div (4 * den) >= Scale THEN Scale
         ELSE (Scale * (2 * den + num)) \div (4 * den)

\* lognorm(scale=exp(mean), s=stddev).cdf(value)
LognormCdf(mean, stddev, value) ==
    IF value <= 0 THEN 0 ELSE Phi(Ln10(value) - 10 * mean, 10 * stddev)

\* norm(loc=mean, scale=stddev).sf(value), the survival function
NormSf(mean, stddev, value) == Scale - Phi(10 * value - 10 * mean, 10 * stddev)

\* norm(loc=mean, scale=stddev).cdf(value)
NormCdf(mean, stddev, value) == Phi(10 * value - 10 * mean, 10 * stddev)

\* The inner function of the CachedFunction object fn, applied to value.
inner_function(fn, value) ==
    IF fn.family = "logncdf" THEN LognormCdf(fn.mean, fn.stddev, value)
    ELSE NormCdf(fn.mean, fn.stddev, value)

\* CachedFunction.__init__: a new object with an empty cache.
CachedFunction(family, mean, stddev) ==
    [family |-> family, mean |-> mean, stddev |-> stddev, cache |-> EmptyDict]

\* CachedFunction.__call__ as it would be if a cache that is not empty
\* answered whatever the value is.
CachedFunctionCallAnyValue(heap, id, value) ==
    IF DOMAIN heap[id].cache # {}
    THEN [result |-> heap[id].cache[CHOOSE x \in DOMAIN heap[id].cache : TRUE],
          functions |-> heap]
    ELSE LET result == inner_function(heap[id], value)
         IN [result |-> result,
             functions |-> [heap EXCEPT ![id].cache = DictSet(@, value, result)]]

\* CachedFunction.__call__ on the object at index id of the heap:
\* the result and the heap after the call.
CachedFunctionCall(heap, id, value) ==
    IF value \in DOMAIN heap[id].cache
    THEN [result |-> heap[id].cache[value], functions |-> heap]
    ELSE LET result == inner_function(heap[id], value)
         IN [result |-> result,
             functions |-> [heap EXCEPT ![id].cache = DictSet(@, value, result)]]

\* The call of a factory as it would be if the key of its cache were the
\* mean alone.
FactoryCallKeyedByMean(heap, caches, family, mean, stddev) ==
    LET key == <<mean>>
    IN IF key \in DOMAIN caches[family]
       THEN [fn |-> caches[family][key], functions |-> heap, caches |-> caches]
       ELSE [fn |-> Len(heap) + 1,
             functions |-> Append(heap, CachedFunction(family, mean, stddev)),
             caches |-> [caches EXCEPT ![family] = DictSet(@, key, Len(heap) + 1)]]

\* LogncdfFactory.__call__ / NormCdfFactory.__call__ of the factory of one
\* family: the cached object of the key (mean, stddev), or a new one that is
\* put into the factory's cache.  Gives the object's index and the heap and
\* the factory caches after the call.
FactoryCall(heap, caches, family, mean, stddev) ==
    LET key == <<mean, stddev>>
    IN IF key \in DOMAIN caches[family]
       THEN [fn |-> caches[family][key], functions |-> heap, caches |-> caches]
       ELSE [fn |-> Len(heap) + 1,
             functions |-> Append(heap, CachedFunction(family, mean, stddev)),
             caches |-> [caches EXCEPT ![family] = DictSet(@, key, Len(heap) + 1)]]

\* ---------------------------------------------------------- DamageState

\* DamageState.__init__ as it would be without the upper() of the field.
DamageStateFieldAsGiven(taxonomy, from_state, to_state, intensity_field, intensity_unit, fragility_function) ==
    [taxonomy |-> taxonomy,
     from_state |-> from_state,
     to_state |-> to_state,
     intensity_field |-> intensity_field,
     intensity_unit |-> intensity_unit,
     fragility_function |-> fragility_function]

\* DamageState.__init__
DamageState(taxonomy, from_state, to_state, intensity_field, intensity_unit, fragility_function) ==
    [taxonomy |-> taxonomy,
     from_state |-> from_state,
     to_state |-> to_state,
     intensity_field |-> Upper(intensity_field),
     intensity_unit |-> intensity_unit,
     fragility_function |-> fragility_function]

\* get_probability_for_intensity as it would be without the comparison of
\* the unit.
get_probability_unit_unchecked(heap, ds, intensity, units) ==
    LET field == ds.intensity_field
    IN IF field \notin DOMAIN intensity \/ field \notin DOMAIN units
       THEN [raised |-> "KeyError", value |-> 0, functions |-> heap]
       ELSE LET call == CachedFunctionCall(heap, ds.fragility_function,
                                           intensity[field])
            IN [raised |-> "", value |-> call.result,
                functions |-> call.functions]

\* DamageState.get_probability_for_intensity(intensity, units): what is
\* raised ("" when nothing is), the value returned and the heap afterwards.
get_probability_for_intensity(heap, ds, intensity, units) ==
    LET field == ds.intensity_field
    IN IF field \notin DOMAIN intensity
       THEN [raised |-> "KeyError", value |-> 0, functions |-> heap]
       ELSE IF field \notin DOMAIN units
       THEN [raised |-> "KeyError", value |-> 0, functions |-> heap]
       ELSE IF units[field] # ds.intensity_unit
       THEN [raised |-> "Not supported unit", value |-> 0, functions |-> heap]
       ELSE LET call == CachedFunctionCall(heap, ds.fragility_function,
                                           intensity[field])
            IN [raised |-> "", value |-> call.result,
                functions |-> call.functions]

\* ------------------------------------------------------------- Fragility

\* collections.defaultdict(list): d[k], without the insertion
DefaultGet(d, k) == IF k \in DOMAIN d THEN d[k] ELSE <<>>

\* The body of the loop over the mean keys as it would be if from_state were
\* not set to 0 when both expressions read the same digit.
ParseKeyKeepingFrom(st, dataset, factory, key) ==
    IF ToStateMatch(key) = None \/ FromStateMatch(key) = None
    THEN [st EXCEPT !.raised = "AttributeError"]
    ELSE IF ~HasKey(dataset, ReplaceMeanByStddev(key))
    THEN [st EXCEPT !.raised = "KeyError"]
    ELSE
      LET to_state == DigitValue(ToStateMatch(key))
          from_state == DigitValue(FromStateMatch(key))
          mean == ValueOf(dataset, key)
          stddev == ValueOf(dataset, ReplaceMeanByStddev(key))
          made == FactoryCall(st.functions, st.caches, factory, mean, stddev)
          damage_state == DamageState(dataset.taxonomy, from_state, to_state,
                                      dataset.imt, dataset.imu, made.fn)
      IN [by_taxonomy |->
              DictSet(st.by_taxonomy, dataset.taxonomy,
                      Append(DefaultGet(st.by_taxonomy, dataset.taxonomy),
                             damage_state)),
          functions |-> made.functions,
          caches |-> made.caches,
          raised |-> ""]

\* The body of the loop over the mean keys of one dataset, for one key, on
\* the loading state st = [by_taxonomy, functions, caches, raised].
ParseKey(st, dataset, factory, key) ==
    IF ToStateMatch(key) = None \/ FromStateMatch(key) = None
    THEN [st EXCEPT !.raised = "AttributeError"]
    ELSE IF ~HasKey(dataset, ReplaceMeanByStddev(key))
    THEN [st EXCEPT !.raised = "KeyError"]
    ELSE
      LET to_state == DigitValue(ToStateMatch(key))
          read_from == DigitValue(FromStateMatch(key))
          from_state == IF to_state = read_from THEN 0 ELSE read_from
          mean == ValueOf(dataset, key)
          stddev == ValueOf(dataset, ReplaceMeanByStddev(key))
          made == FactoryCall(st.functions, st.caches, factory, mean, stddev)
          damage_state == DamageState(dataset.taxonomy, from_state, to_state,
                                      dataset.imt, dataset.imu, made.fn)
      IN [by_taxonomy |->
              DictSet(st.by_taxonomy, dataset.taxonomy,
                      Append(DefaultGet(st.by_taxonomy, dataset.taxonomy),
                             damage_state)),
          functions |-> made.functions,
          caches |-> made.caches,
          raised |-> ""]

\* The loop over the mean keys of one dataset; it ends at the first
\* exception.
RECURSIVE ParseKeys(_, _, _, _)
ParseKeys(st, dataset, factory, keys) ==
    IF keys = <<>> \/ st.raised # "" THEN st
    ELSE ParseKeys(ParseKey(st, dataset, factory, Head(keys)), dataset,
                   factory, Tail(keys))

\* The loop over self._data["data"].
RECURSIVE ParseDatasets(_, _, _)
ParseDatasets(st, factory, datasets) ==
    IF datasets = <<>> \/ st.raised # "" THEN st
    ELSE ParseDatasets(
             ParseKeys(st, Head(datasets), factory, MeanKeys(Head(datasets))),
             factory, Tail(datasets))

\* max([ds.to_state for ds in damage_states]) of a list that is not empty
MaxToState(damage_states) ==
    CHOOSE m \in {damage_states[n].to_state : n \in 1..Len(damage_states)} :
        \A n \in 1..Len(damage_states) : damage_states[n].to_state <= m

\* [ds for ds in damage_states if ds.from_state == f and ds.to_state == t]
Matching(damage_states, f, t) ==
    LET is(ds) == ds.from_state = f /\ ds.to_state = t
    IN SelectSeq(damage_states, is)

\* The body of the two loops as it would be if the new damage state kept
\* the from_state of the one found.
FillOneSameFrom(damage_states, from_damage_state, to_damage_state) ==
    LET ds_option == Matching(damage_states, from_damage_state,
                              to_damage_state)
        ds_option_lower == Matching(damage_states, from_damage_state - 1,
                                    to_damage_state)
    IN IF ds_option = <<>> /\ ds_option_lower # <<>>
       THEN LET ds_lower == ds_option_lower[1]
            IN Append(damage_states,
                      DamageState(ds_lower.taxonomy,
                                  ds_lower.from_state,
                                  ds_lower.to_state,
                                  ds_lower.intensity_field,
                                  ds_lower.intensity_unit,
                                  ds_lower.fragility_function))
       ELSE damage_states

\* The body of the two loops as it would be if the damage state to copy were
\* looked for at (0, to_damage_state) instead of one state below.
FillOneFromBaseline(damage_states, from_damage_state, to_damage_state) ==
    LET ds_option == Matching(damage_states, from_damage_state,
                              to_damage_state)
        ds_option_lower == Matching(damage_states, 0, to_damage_state)
    IN IF ds_option = <<>> /\ from_damage_state >= 1 /\ ds_option_lower # <<>>
       THEN LET ds_lower == ds_option_lower[1]
            IN Append(damage_states,
                      DamageState(ds_lower.taxonomy,
                                  from_damage_state,
                                  ds_lower.to_state,
                                  ds_lower.intensity_field,
                                  ds_lower.intensity_unit,
                                  ds_lower.fragility_function))
       ELSE damage_states

\* The body of the two loops of _add_damage_states_if_missing_to_dataset_list
\* for one (from_damage_state, to_damage_state).
FillOne(damage_states, from_damage_state, to_damage_state) ==
    LET ds_option == Matching(damage_states, from_damage_state,
                              to_damage_state)
        ds_option_lower == Matching(damage_states, from_damage_state - 1,
                                    to_damage_state)
    IN IF ds_option = <<>> /\ ds_option_lower # <<>>
       THEN LET ds_lower == ds_option_lower[1]
            IN Append(damage_states,
                      DamageState(ds_lower.taxonomy,
                                  ds_lower.from_state + 1,
                                  ds_lower.to_state,
                                  ds_lower.intensity_field,
                                  ds_lower.intensity_unit,
                                  ds_lower.fragility_function))
       ELSE damage_states

\* for from_damage_state in range(0, max): for to_damage_state in
\* range(1, max + 1), from the pair (f, t) on.
RECURSIVE FillFrom(_, _, _, _)
FillFrom(damage_states, f, t, max_damage_state) ==
    IF f >= max_damage_state THEN damage_states
    ELSE IF t > max_damage_state
         THEN FillFrom(damage_states, f + 1, 1, max_damage_state)
         ELSE FillFrom(FillOne(damage_states, f, t), f, t + 1,
                       max_damage_state)

\* Fragility._add_damage_states_if_missing_to_dataset_list
add_damage_states_if_missing_to_dataset_list(damage_states) ==
    FillFrom(damage_states, 0, 1, MaxToState(damage_states))

\* Fragility._add_damage_states_if_missing
add_damage_states_if_missing(by_taxonomy) ==
    [taxonomy \in DOMAIN by_taxonomy |->
        add_damage_states_if_missing_to_dataset_list(by_taxonomy[taxonomy])]

\* Fragility.to_fragility_provider on the definition d, with the heap and
\* the factory caches as they are: what is raised, the provider (None when
\* something is raised), and the heap and the factory caches afterwards.
to_fragility_provider(d, heap, fcaches) ==
    IF d.meta.shape \notin Shapes
    THEN [raised |-> "KeyError", provider |-> None,
          functions |-> heap, caches |-> fcaches]
    ELSE
      LET parsed == ParseDatasets(
                        [by_taxonomy |-> EmptyDict, functions |-> heap,
                         caches |-> fcaches, raised |-> ""],
                        d.meta.shape, d.data)
      IN IF parsed.raised # ""
         THEN [raised |-> parsed.raised, provider |-> None,
               functions |-> parsed.functions, caches |-> parsed.caches]
         ELSE [raised |-> "",
               provider |->
                   [damage_states_by_taxonomy |->
                        add_damage_states_if_missing(parsed.by_taxonomy),
                    schema |-> d.meta.id],
               functions |-> parsed.functions, caches |-> parsed.caches]

\* ------------------------------------------------------ FragilityProvider

\* FragilityProvider.get_damage_states_for_taxonomy: the list returned and
\* the provider afterwards.  The dict is a collections.defaultdict(list):
\* reading a key that is missing inserts it with an empty list.
get_damage_states_for_taxonomy(p, taxonomy) ==
    IF taxonomy \in DOMAIN p.damage_states_by_taxonomy
    THEN [returned |-> p.damage_states_by_taxonomy[taxonomy], provider |-> p]
    ELSE [returned |-> <<>>,
          provider |-> [p EXCEPT !.damage_states_by_taxonomy =
                                      DictSet(@, taxonomy, <<>>)]]

\* FragilityProvider.get_taxonomies
get_taxonomies(p) == DOMAIN p.damage_states_by_taxonomy

\* ------------------------------------------------------- exposure update

\* The damage states of a cell of the exposure.
ExposureStates == 0..2

\* The taxonomies of a cell, in the order in which they are updated.
CellTaxonomies == <<"URM1", "CM">>

\* The sum of the counts of a dict.
RECURSIVE Total(_)
Total(counts) ==
    IF DOMAIN counts = {} THEN 0
    ELSE LET k == CHOOSE x \in DOMAIN counts : TRUE
         IN counts[k] + Total([x \in DOMAIN counts \ {k} |-> counts[x]])

\* The element of a set of one element.
The(S) == CHOOSE x \in S : TRUE

\* The cumulative exceedance probabilities P(t) of the targets t..max_state
\* of the buildings in state s, each from the damage state (s, t) of the
\* list: what is raised, the dict of the P(t) and the heap afterwards.
RECURSIVE Exceedance(_, _, _, _, _, _, _)
Exceedance(heap, damage_states, s, t, max_state, intensity, units) ==
    IF t > max_state
    THEN [raised |-> "", p |-> EmptyDict, functions |-> heap]
    ELSE IF Matching(damage_states, s, t) = <<>>
    THEN [raised |-> "no damage state", p |-> EmptyDict, functions |-> heap]
    ELSE The({
      IF out.raised # ""
      THEN [raised |-> out.raised, p |-> EmptyDict,
            functions |-> out.functions]
      ELSE The({[raised |-> rest.raised,
                 p |-> DictSet(rest.p, t, out.value),
                 functions |-> rest.functions] :
               rest \in {Exceedance(out.functions, damage_states, s, t + 1,
                                    max_state, intensity, units)}}) :
      out \in {get_probability_for_intensity(
                   heap, Matching(damage_states, s, t)[1], intensity,
                   units)}})

\* P(t), with P(t) = 0 above the highest state.
ProbabilityAt(p, t) == IF t \in DOMAIN p THEN p[t] ELSE 0

\* The share with all the buildings of state s counted as staying in s.
ShareKeepingAll(b, s, t, p) ==
    IF t = s THEN b * Scale
    ELSE b * (ProbabilityAt(p, t) - ProbabilityAt(p, t + 1))

\* The share of the b buildings of state s that is in state t afterwards:
\* b * (P(t) - P(t+1)) for a target t > s, b * (1 - P(s+1)) for t = s.
Share(b, s, t, p) ==
    IF t = s THEN b * (Scale - ProbabilityAt(p, s + 1))
    ELSE b * (ProbabilityAt(p, t) - ProbabilityAt(p, t + 1))

\* The result so far, acc = [raised, counts, transitions, stays, functions],
\* with the b buildings of state s of a taxonomy redistributed on the states
\* up to max_state by the probabilities ex = [raised, p, functions].
Redistribute(acc, taxonomy, b, s, max_state, ex) ==
    IF ex.raised # ""
    THEN [acc EXCEPT !.raised = ex.raised, !.functions = ex.functions]
    ELSE
      LET targets == {t \in DOMAIN acc.counts : s < t /\ t <= max_state}
          record(t) == [taxonomy |-> taxonomy, from_state |-> s,
                        to_state |-> t, n_buildings |-> Share(b, s, t, ex.p)]
      IN [raised |-> "",
          counts |-> [t \in DOMAIN acc.counts |->
                         IF t = s \/ t \in targets
                         THEN acc.counts[t] + Share(b, s, t, ex.p)
                         ELSE acc.counts[t]],
          transitions |-> acc.transitions \cup {record(t) : t \in targets},
          stays |-> acc.stays \cup {record(s)},
          functions |-> ex.functions]

\* The redistribution of the occupied states s, s+1, ... of one taxonomy on
\* the result so far.
RECURSIVE RedistributeFrom(_, _, _, _, _, _)
RedistributeFrom(acc, damage_states, counts, s, intensity, units) ==
    IF s \notin DOMAIN counts \/ acc.raised # "" THEN acc
    ELSE IF counts[s] = 0
    THEN RedistributeFrom(acc, damage_states, counts, s + 1, intensity, units)
    ELSE The({
      RedistributeFrom(next, damage_states, counts, s + 1, intensity, units) :
      next \in {Redistribute(acc, damage_states[1].taxonomy, counts[s], s,
                             MaxToState(damage_states), ex) :
                ex \in {Exceedance(acc.functions, damage_states, s, s + 1,
                                   MaxToState(damage_states), intensity,
                                   units)}}})

\* The run so far, run = [raised, exposure, transitions, stays, functions,
\* provider], with the counts of one taxonomy redistributed on the damage
\* states found = [returned, provider] for it.
UpdateTaxonomy(run, taxonomy, counts, found, intensity, units) ==
    IF found.returned = <<>>
    THEN [run EXCEPT !.raised = "unmapped taxonomy",
                     !.provider = found.provider]
    ELSE The({
      [raised |-> done.raised,
       exposure |-> DictSet(run.exposure, taxonomy, done.counts),
       transitions |-> done.transitions,
       stays |-> done.stays,
       functions |-> done.functions,
       provider |-> found.provider] :
      done \in {RedistributeFrom(
                    [raised |-> "",
                     counts |-> [t \in DOMAIN counts |-> 0],
                     transitions |-> run.transitions,
                     stays |-> run.stays,
                     functions |-> run.functions],
                    found.returned, counts, 0, intensity, units)}})

\* The update of the taxonomies of one cell from place k of CellTaxonomies
\* on, on the run so far.  A taxonomy without buildings is passed over; one
\* for which the provider has no damage states ends the run.
RECURSIVE UpdateFrom(_, _, _, _, _)
UpdateFrom(run, cell, k, intensity, units) ==
    IF k > Len(CellTaxonomies) \/ run.raised # "" THEN run
    ELSE IF Total(cell[CellTaxonomies[k]]) = 0
    THEN UpdateFrom(
             [run EXCEPT !.exposure =
                 DictSet(@, CellTaxonomies[k],
                         [t \in DOMAIN cell[CellTaxonomies[k]] |-> 0])],
             cell, k + 1, intensity, units)
    ELSE The({
      UpdateFrom(next, cell, k + 1, intensity, units) :
      next \in {UpdateTaxonomy(run, CellTaxonomies[k], cell[CellTaxonomies[k]],
                               found, intensity, units) :
                found \in {get_damage_states_for_taxonomy(
                               run.provider, CellTaxonomies[k])}}})

\* update_exposure_transitions_and_losses for one cell and the reading
\* (intensity, units) of the intensity provider at the cell.
update_exposure(cell, p, heap, intensity, units) ==
    UpdateFrom([raised |-> "", exposure |-> EmptyDict, transitions |-> {},
                stays |-> {}, functions |-> heap, provider |-> p],
               cell, 1, intensity, units)

\* The label of a damage state in the expo table of a cell: D0, D1, ...
DamageLabel(state) == <<"D", DigitString[state + 1]>>

\* The expo table with one more row for every count, whatever rows it has.
AddRowAlways(table, taxonomy, state, number) ==
    Append(table, [Taxonomy |-> taxonomy, Damage |-> DamageLabel(state),
                   Buildings |-> number])

\* The expo table with the count of a taxonomy and damage state added to
\* the row of the pair, or as a new row if the pair has none yet.
AddRow(table, taxonomy, state, number) ==
    LET same == {n \in DOMAIN table :
                    /\ table[n].Taxonomy = taxonomy
                    /\ table[n].Damage = DamageLabel(state)}
    IN IF same = {}
       THEN Append(table, [Taxonomy |-> taxonomy, Damage |-> DamageLabel(state),
                           Buildings |-> number])
       ELSE [n \in DOMAIN table |->
                IF n \in same
                THEN [table[n] EXCEPT !.Buildings = @ + number]
                ELSE table[n]]

\* The (taxonomy, from_state, to_state) of the counts of a cell in the
\* order in which the update makes them: by taxonomy, state and target.
CountOrder ==
    LET n == Cardinality(ExposureStates)
    IN [i \in 1..(Len(CellTaxonomies) * n * n) |->
           [taxonomy |-> CellTaxonomies[((i - 1) \div (n * n)) + 1],
            from_state |-> ((i - 1) % (n * n)) \div n,
            to_state |-> (i - 1) % n]]

\* The expo table of the counts of records from place i of the order on,
\* added to the table so far.
RECURSIVE ExpoFrom(_, _, _)
ExpoFrom(table, records, i) ==
    IF i > Len(CountOrder) THEN table
    ELSE The({
      ExpoFrom(next, records, i + 1) :
      next \in {IF \E r \in records : r.taxonomy = CountOrder[i].taxonomy
                                        /\ r.from_state = CountOrder[i].from_state
                                        /\ r.to_state = CountOrder[i].to_state
                THEN AddRow(done, CountOrder[i].taxonomy,
                            CountOrder[i].to_state,
                            (CHOOSE r \in records :
                                /\ r.taxonomy = CountOrder[i].taxonomy
                                /\ r.from_state = CountOrder[i].from_state
                                /\ r.to_state = CountOrder[i].to_state
                            ).n_buildings)
                ELSE done :
                done \in {table}}})

\* The expo table the update writes for a cell: the counts the update
\* made, in the vocabulary of the exposure.
expo_of_records(records) == ExpoFrom(<<>>, records, 1)

\* The expo table of a cell as it is read: a row for every taxonomy and
\* damage state that has buildings.
expo_of_cell(cell) ==
    expo_of_records(
        {r \in {[taxonomy |-> taxonomy, from_state |-> state,
                 to_state |-> state,
                 n_buildings |-> cell[taxonomy][state]] :
                    taxonomy \in DOMAIN cell, state \in ExposureStates} :
            r.n_buildings # 0})

\* The loss provider: the loss of count buildings of a taxonomy in a damage
\* state, in the unit of money; the cost of a building grows with its state.
get_loss(taxonomy, state, count) == count * state

\* The loss of a cell: the sum over its taxonomies and damage states.
LossOfCell(cell) ==
    LET OfTaxonomy(taxonomy) ==
            Total([state \in DOMAIN cell[taxonomy] |->
                      get_loss(taxonomy, state, cell[taxonomy][state])])
    IN Total([taxonomy \in DOMAIN cell |-> OfTaxonomy(taxonomy)])

\* The cumulative loss with the loss of one more update added to it as it
\* would be if the loss of the update took its place.
CumulativeLossOfUpdateOnly(cum_loss_value, loss_value) == loss_value

\* The cumulative loss with the loss of one more update added to it.  The
\* loss of the update is held times Scale^events as the counts are, and so
\* the cumulative loss before is brought to that scale.
CumulativeLoss(cum_loss_value, loss_value) ==
    Scale * cum_loss_value + loss_value

\* ------------------------------------------------------ parallel workers

\* The results of the workers put together in the order in which the
\* workers finished.
GatherAsFinished(results, finished) ==
    [k \in 1..Len(finished) |-> results[finished[k]]]

\* The results of the workers put together: the result of the i-th cell of
\* the input at place i, whenever its worker finished.
Gather(results, finished) ==
    [i \in 1..Len(finished) |-> results[i]]

\* The update of one cell of a snapshot by a worker, which has the provider
\* and the function heap in its own memory: the cell of the result, or what
\* was raised.
update_cell(cell, p, heap) ==
    The({[raised |-> run.raised,
          cell |-> [gid |-> cell.gid, exposure |-> run.exposure,
                    intensity |-> cell.intensity,
                    transitions |-> run.transitions]] :
         run \in {update_exposure(cell.exposure, p, heap,
                                  [m \in {"PGA"} |-> cell.intensity],
                                  [m \in {"PGA"} |-> "g"])}})

\* ------------------------------------------------------------ rasterwrapper

\* RasterWrapper.is_location_in_bbox as it would be without the comparison
\* with the top of the bounding box.
is_location_in_bbox_below_top(raster, lon, lat) ==
    IF lon < raster.bounds.left THEN FALSE
    ELSE IF lon > raster.bounds.right THEN FALSE
    ELSE IF lat < raster.bounds.bottom THEN FALSE
    ELSE TRUE

\* RasterWrapper.is_location_in_bbox(lon, lat)
is_location_in_bbox(raster, lon, lat) ==
    IF lon < raster.bounds.left THEN FALSE
    ELSE IF lon > raster.bounds.right THEN FALSE
    ELSE IF lat < raster.bounds.bottom THEN FALSE
    ELSE IF lat > raster.bounds.top THEN FALSE
    ELSE TRUE

\* raster_reader.index(lon, lat): the row and the column of the location
\* in the grid of cells of raster.res degrees that starts at the top left
\* of the bounds, each rounded down.
raster_index(raster, lon, lat) ==
    <<(raster.bounds.top - lat) \div raster.res,
      (lon - raster.bounds.left) \div raster.res>>

\* self._data[0, i, j]: an index below zero counts from the end, an index
\* beyond the array raises.
ArrayAt(rows, i, j) ==
    LET n == Len(rows)
        m == Len(rows[1])
        r == IF i < 0 THEN i + n ELSE i
        c == IF j < 0 THEN j + m ELSE j
    IN IF r < 0 \/ r >= n \/ c < 0 \/ c >= m
       THEN [raised |-> "IndexError", value |-> 0]
       ELSE [raised |-> "", value |-> rows[r + 1][c + 1]]

\* RasterWrapper.get_sample(lon, lat)
get_sample(raster, lon, lat) ==
    ArrayAt(raster.data, raster_index(raster, lon, lat)[1],
            raster_index(raster, lon, lat)[2])

\* ------------------------------------------------------ intensity providers

\* A lookup result: what is raised, the value and the unit mappings, and
\* whether the data array of a raster was read.
Reading(raised, intensities, units, read) ==
    [raised |-> raised, intensities |-> intensities, units |-> units,
     read |-> read]

\* RasterIntensityProvider.get_nearest(lon, lat): the sample of the raster
\* at a location of its bounding box, the not-available value elsewhere.
raster_get_nearest(p, lon, lat) ==
    IF is_location_in_bbox(p.raster, lon, lat)
    THEN The({Reading(sample.raised,
                      IF sample.raised = ""
                      THEN [m \in {p.kind} |-> sample.value] ELSE EmptyDict,
                      IF sample.raised = ""
                      THEN [m \in {p.kind} |-> p.unit] ELSE EmptyDict,
                      TRUE) :
              sample \in {get_sample(p.raster, lon, lat)}})
    ELSE Reading("", [m \in {p.kind} |-> p.na_value],
                 [m \in {p.kind} |-> p.unit], FALSE)

\* The square of the distance of a located record from a location.
Distance2(record, lon, lat) ==
    (record.lon - lon) * (record.lon - lon)
        + (record.lat - lat) * (record.lat - lat)

\* IntensityProvider.get_nearest(lon, lat) on located records: the values
\* and the units of the nearest record, the first one of those equally far.
table_get_nearest(p, lon, lat) ==
    LET nearest ==
            CHOOSE k \in 1..Len(p.records) :
                \A j \in 1..Len(p.records) :
                    \/ Distance2(p.records[k], lon, lat)
                           < Distance2(p.records[j], lon, lat)
                    \/ /\ Distance2(p.records[k], lon, lat)
                              = Distance2(p.records[j], lon, lat)
                       /\ k <= j
    IN Reading("", p.records[nearest].intensities,
               p.records[nearest].units, FALSE)

\* dict.update: the entries of the second dict put over those of the first.
DictUpdate(d, e) ==
    [x \in DOMAIN d \cup DOMAIN e |-> IF x \in DOMAIN e THEN e[x] ELSE d[x]]

\* The first of the candidates from place k on that the values have, or
\* None.
RECURSIVE FirstPresent(_, _, _)
FirstPresent(candidates, k, intensities) ==
    IF k > Len(candidates) THEN None
    ELSE IF candidates[k] \in DOMAIN intensities THEN candidates[k]
    ELSE FirstPresent(candidates, k + 1, intensities)

\* The result of the wrapped provider with the alias from place k on added
\* as it would be if the last of its candidates that is present were taken.
RECURSIVE AddAliasesLastPresent(_, _, _, _)
AddAliasesLastPresent(wrapped, aliases, k, result) ==
    IF k > Len(aliases) THEN result
    ELSE
      LET alias == aliases[k].alias
          present == {j \in 1..Len(aliases[k].candidates) :
                         aliases[k].candidates[j] \in DOMAIN wrapped.intensities}
          source == aliases[k].candidates[
                        CHOOSE j \in present : \A i \in present : i <= j]
      IN IF alias \in DOMAIN wrapped.intensities \/ present = {}
         THEN AddAliasesLastPresent(wrapped, aliases, k + 1, result)
         ELSE AddAliasesLastPresent(
                  wrapped, aliases, k + 1,
                  [result EXCEPT
                      !.intensities =
                          DictSet(@, alias, wrapped.intensities[source]),
                      !.units = DictSet(@, alias, wrapped.units[source])])

\* The result of the wrapped provider with the aliases from place k on
\* added as it would be if only the value of an alias were added.
RECURSIVE AddAliasesValuesOnly(_, _, _, _)
AddAliasesValuesOnly(wrapped, aliases, k, result) ==
    IF k > Len(aliases) THEN result
    ELSE
      LET alias == aliases[k].alias
          source == FirstPresent(aliases[k].candidates, 1,
                                 wrapped.intensities)
      IN IF alias \in DOMAIN wrapped.intensities \/ source = None
         THEN AddAliasesValuesOnly(wrapped, aliases, k + 1, result)
         ELSE AddAliasesValuesOnly(
                  wrapped, aliases, k + 1,
                  [result EXCEPT
                      !.intensities =
                          DictSet(@, alias, wrapped.intensities[source])])

\* AliasIntensityProvider: the result of the wrapped provider with the
\* aliases from place k on added.  An alias that the wrapped result lacks
\* takes the value and the unit of the first of its candidates that the
\* wrapped result has.
RECURSIVE AddAliases(_, _, _, _)
AddAliases(wrapped, aliases, k, result) ==
    IF k > Len(aliases) THEN result
    ELSE
      LET alias == aliases[k].alias
          source == FirstPresent(aliases[k].candidates, 1,
                                 wrapped.intensities)
      IN IF alias \in DOMAIN wrapped.intensities \/ source = None
         THEN AddAliases(wrapped, aliases, k + 1, result)
         ELSE AddAliases(
                  wrapped, aliases, k + 1,
                  [result EXCEPT
                      !.intensities =
                          DictSet(@, alias, wrapped.intensities[source]),
                      !.units = DictSet(@, alias, wrapped.units[source])])

\* StackedIntensityProvider as it would be if a layer did not replace what
\* the layers before it gave.
StackEarlierWins(result, layer) ==
    Reading("", DictUpdate(layer.intensities, result.intensities),
            DictUpdate(layer.units, result.units),
            result.read \/ layer.read)

\* StackedIntensityProvider: the result so far with the result of the next
\* layer put over it.
Stack(result, layer) ==
    Reading("", DictUpdate(result.intensities, layer.intensities),
            DictUpdate(result.units, layer.units),
            result.read \/ layer.read)

\* The results of the layers stacked, in the order of the layers.
RECURSIVE StackAll(_, _, _)
StackAll(readings, k, result) ==
    IF k > Len(readings) THEN result
    ELSE IF readings[k].raised # ""
    THEN Reading(readings[k].raised, EmptyDict, EmptyDict,
                 result.read \/ readings[k].read)
    ELSE The({StackAll(readings, k + 1, next) :
              next \in {Stack(result, readings[k])}})

\* provider.get_nearest(lon, lat) of a provider of any variant; a
\* decorator asks the providers it holds at the same location.
RECURSIVE get_nearest(_, _, _)
get_nearest(p, lon, lat) ==
    CASE p.variant = "raster" -> raster_get_nearest(p, lon, lat)
      [] p.variant = "table" -> table_get_nearest(p, lon, lat)
      [] p.variant = "alias" ->
            The({IF wrapped.raised # "" THEN wrapped
                 ELSE AddAliases(wrapped, p.aliases, 1, wrapped) :
                 wrapped \in {get_nearest(p.inner[1], lon, lat)}})
      [] p.variant = "stacked" ->
            The({StackAll(readings, 1,
                          Reading("", EmptyDict, EmptyDict, FALSE)) :
                 readings \in {[k \in 1..Len(p.inner) |->
                                   get_nearest(p.inner[k], lon, lat)]}})

\* ------------------------------------------------------ create_shapefile

\* A dict that keeps the order in which its keys were put in is a sequence
\* of [key, value]; the places of a key in it (one at most).
PlacesOfKey(d, k) == {n \in DOMAIN d : d[n].key = k}

\* k in d.keys()
HasItem(d, k) == PlacesOfKey(d, k) # {}

\* d[k] of a key that is there
ItemOf(d, k) == d[The(PlacesOfKey(d, k))].value

\* d[k] = v
PutItem(d, k, v) ==
    IF HasItem(d, k)
    THEN [n \in DOMAIN d |-> IF d[n].key = k THEN [key |-> k, value |-> v]
                             ELSE d[n]]
    ELSE Append(d, [key |-> k, value |-> v])

\* str(n) of a number that is not negative
RECURSIVE Decimal(_)
Decimal(n) ==
    IF n < 10 THEN <<DigitString[n + 1]>>
    ELSE Decimal(n \div 10) \o <<DigitString[(n % 10) + 1]>>

\* CustomColumnGenerator.__init__(prefix)
CustomColumnGenerator(prefix) ==
    [prefix |-> prefix, count |-> 1, custom_column_names |-> <<>>,
     custom_cols |-> <<>>]

\* CustomColumnGenerator._create_new_col as it would be if the counter
\* were not increased.
create_new_col_same_count(g) ==
    [col_name |-> g.prefix \o Decimal(g.count), generator |-> g]

\* CustomColumnGenerator._create_new_col: the new column name and the
\* generator afterwards.
create_new_col(g) ==
    [col_name |-> g.prefix \o Decimal(g.count),
     generator |-> [g EXCEPT !.count = @ + 1]]

\* CustomColumnGenerator.set_value_for_custom_column(long_name, id, value):
\* the generator afterwards.
set_value_for_custom_column(g, long_name, id, value) ==
    LET named ==
            IF HasItem(g.custom_column_names, long_name)
            THEN [col_name |-> ItemOf(g.custom_column_names, long_name),
                  generator |-> g]
            ELSE The({[col_name |-> new.col_name,
                       generator |->
                           [new.generator EXCEPT
                               !.custom_column_names =
                                   PutItem(@, long_name, new.col_name)]] :
                      new \in {create_new_col(g)}})
        with_col ==
            IF HasItem(named.generator.custom_cols, named.col_name)
            THEN named.generator.custom_cols
            ELSE PutItem(named.generator.custom_cols, named.col_name,
                         EmptyDict)
    IN [named.generator EXCEPT
           !.custom_cols =
               PutItem(with_col, named.col_name,
                       DictSet(ItemOf(with_col, named.col_name), id, value))]

\* CustomColumnGenerator.full_columns(id_array): for every column the list
\* of the values of the ids, None for an id without a value.
full_columns(g, id_array) ==
    [n \in DOMAIN g.custom_cols |->
        [key |-> g.custom_cols[n].key,
         value |-> [i \in DOMAIN id_array |->
                       IF id_array[i] \in DOMAIN g.custom_cols[n].value
                       THEN g.custom_cols[n].value[id_array[i]]
                       ELSE None]]]

\* {v: k for k, v in items} from place n of the items on, put into the
\* dict so far.
RECURSIVE InvertFrom(_, _, _)
InvertFrom(items, n, result) ==
    IF n > Len(items) THEN result
    ELSE The({InvertFrom(items, n + 1, next) :
              next \in {PutItem(result, items[n].value, items[n].key)}})

\* CustomColumnGenerator.get_custom_column_mapping()
get_custom_column_mapping(g) == InvertFrom(g.custom_column_names, 1, <<>>)

\* int() of a string of digits
RECURSIVE ParseInt(_)
ParseInt(digits) ==
    IF Len(digits) = 1 THEN DigitValue(digits[1])
    ELSE 10 * ParseInt(SubSeq(digits, 1, Len(digits) - 1))
             + DigitValue(digits[Len(digits)])

\* dx_to_int(ds): D3 to 3
dx_to_int(ds) == ParseInt(Tail(ds))

\* d.setdefault(k, 0); d[k] += n
AddTo(d, k, n) == DictSet(d, k, (IF k \in DOMAIN d THEN d[k] ELSE 0) + n)

\* m.setdefault(from_ds, {}); m[from_ds].setdefault(to_ds, 0);
\* m[from_ds][to_ds] += n, on a dict that keeps the order of its keys
AddTransition(m, from_ds, to_ds, n) ==
    PutItem(m, from_ds,
            AddTo(IF HasItem(m, from_ds) THEN ItemOf(m, from_ds)
                  ELSE EmptyDict, to_ds, n))

\* The loop over the transitions of a feature from row n on, on
\* acc = [transition_matrix, total].
RECURSIVE TransitionRowsFrom(_, _, _)
TransitionRowsFrom(acc, rows, n) ==
    IF n > Len(rows) THEN acc
    ELSE The({TransitionRowsFrom(next, rows, n + 1) :
              next \in {[transition_matrix |->
                            AddTransition(done.transition_matrix,
                                          rows[n].from_damage_state,
                                          rows[n].to_damage_state,
                                          rows[n].n_buildings),
                         total |->
                            AddTransition(done.total,
                                          rows[n].from_damage_state,
                                          rows[n].to_damage_state,
                                          rows[n].n_buildings)] :
                        done \in {acc}}})

\* The loop over the rows of the expo of a feature from row n on, on
\* acc = [buildings_by_tax_and_ds, total]: the number of a row is put as
\* the buildings of its taxonomy and damage state and is added to the
\* total of its damage state.
RECURSIVE ExpoRowsFrom(_, _, _)
ExpoRowsFrom(acc, rows, n) ==
    IF n > Len(rows) THEN acc
    ELSE The({ExpoRowsFrom(next, rows, n + 1) :
              next \in {[buildings_by_tax_and_ds |->
                            PutItem(done.buildings_by_tax_and_ds,
                                    rows[n].Taxonomy,
                                    DictSet(IF HasItem(
                                                   done.buildings_by_tax_and_ds,
                                                   rows[n].Taxonomy)
                                            THEN ItemOf(
                                                   done.buildings_by_tax_and_ds,
                                                   rows[n].Taxonomy)
                                            ELSE EmptyDict,
                                            dx_to_int(rows[n].Damage),
                                            rows[n].Buildings)),
                         total |->
                            AddTo(done.total, dx_to_int(rows[n].Damage),
                                  rows[n].Buildings)] :
                        done \in {acc}}})

\* The long name of the custom column of a key of the transition matrix,
\* or of a taxonomy.
LongName(kind, k) ==
    IF kind = "transitions" THEN <<"Transitions from damage state", k>>
    ELSE <<"Buildings in", k, "per damage state">>

\* The loops over the items of a dict of a feature that set the custom
\* columns, from item n on; the JSON text of a value is held as the value.
RECURSIVE SetColumnsFrom(_, _, _, _, _)
SetColumnsFrom(g, kind, items, n, gid) ==
    IF n > Len(items) THEN g
    ELSE The({SetColumnsFrom(next, kind, items, n + 1, gid) :
              next \in {set_value_for_custom_column(
                            g, LongName(kind, items[n].key), gid,
                            items[n].value)}})

\* The sum of the values of the dicts of an ordered dict.
RECURSIVE SumOfInner(_, _)
SumOfInner(items, n) ==
    IF n > Len(items) THEN 0
    ELSE Total(items[n].value) + SumOfInner(items, n + 1)

\* The body of the loop over the features of main, for one feature, on
\* out = [ids, loss_values, cum_loss_values, n_buildings, total,
\* custom_cols].  The columns of the mean transition and of the weighted
\* damage, which nothing else reads, and the geometries are left out.
main_feature(out, feature) ==
    The({
      [ids |-> Append(out.ids, feature.gid),
       loss_values |-> Append(out.loss_values, feature.loss_value),
       cum_loss_values |->
           Append(out.cum_loss_values, feature.cum_loss_value),
       n_buildings |->
           Append(out.n_buildings,
                  SumOfInner(rows.buildings_by_tax_and_ds, 1)),
       total |->
           [loss_value |-> out.total.loss_value + feature.loss_value,
            cum_loss |-> out.total.cum_loss + feature.cum_loss_value,
            transition_matrix_from_damage_state |-> moved.total,
            buildings_by_damage_state |-> rows.total],
       custom_cols |->
           SetColumnsFrom(
               SetColumnsFrom(out.custom_cols, "transitions",
                              moved.transition_matrix, 1, feature.gid),
               "buildings", rows.buildings_by_tax_and_ds, 1, feature.gid)] :
      moved \in {TransitionRowsFrom(
                     [transition_matrix |-> <<>>,
                      total |-> out.total.transition_matrix_from_damage_state],
                     feature.transitions, 1)},
      rows \in {ExpoRowsFrom(
                    [buildings_by_tax_and_ds |-> <<>>,
                     total |-> out.total.buildings_by_damage_state],
                    feature.expo, 1)}})

\* The loop over data_in["features"] from feature n on.
RECURSIVE main_from(_, _, _)
main_from(out, features, n) ==
    IF n > Len(features) THEN out
    ELSE The({main_from(next, features, n + 1) :
              next \in {main_feature(out, features[n])}})

\* main of create_shapefile on the features read: the columns of the data
\* frame written to summary.shp and what is written to meta_summary.json.
main(features) ==
    The({[df |-> [id |-> out.ids,
                  loss_value |-> out.loss_values,
                  cum_loss |-> out.cum_loss_values,
                  buildings |-> out.n_buildings,
                  custom |-> full_columns(out.custom_cols, out.ids)],
          meta_summary |->
              [custom_columns |-> get_custom_column_mapping(out.custom_cols),
               total |-> out.total],
          custom_cols |-> out.custom_cols] :
         out \in {main_from(
                      [ids |-> <<>>, loss_values |-> <<>>,
                       cum_loss_values |-> <<>>, n_buildings |-> <<>>,
                       total |->
                           [loss_value |-> 0, cum_loss |-> 0,
                            transition_matrix_from_damage_state |-> <<>>,
                            buildings_by_damage_state |-> EmptyDict],
                       custom_cols |-> CustomColumnGenerator(<<"c">>)],
                      features, 1)}})

\* -------------------------------------------------------------- inputs

Taxonomies == {"URM1", "CM"}

\* The values of the D..._mean and D..._stddev entries.
Means == {1, 2}

Stddevs == {1}

\* The digits of the keys of the input.
KeyDigits == {"0", "1", "2"}

\* What stands between "D" and "_mean" in a key: D{n}_mean, D_{i}_{j}_mean,
\* and keys that follow neither convention (D_0_12_mean, D10_mean, Dx_mean,
\* D_mean).
ShortMids == {<<n>> : n \in KeyDigits}

LongMids == {<<"_", i, "_", j>> : i, j \in KeyDigits}

OddMids == {<<"_", "0", "_", "1", "2">>, <<"1", "0">>, <<"x">>, <<>>}

AllMids == ShortMids \cup LongMids \cup OddMids

\* The keys of the two conventions with from_state < to_state, in the order
\* in which a dataset of the second family of inputs lists them.
OrderedMids ==
    << <<"1">>, <<"2">>, <<"_", "0", "_", "1">>, <<"_", "0", "_", "2">>,
       <<"_", "1", "_", "2">> >>

MeanKey(mid) == <<"D">> \o mid \o MeanSuffix

StddevKey(mid) == <<"D">> \o mid \o StddevSuffix

\* The sequences without repetition of at most n elements of S.
RECURSIVE SeqsUpTo(_, _)
SeqsUpTo(S, n) ==
    IF n = 0 THEN {<<>>}
    ELSE LET shorter == SeqsUpTo(S, n - 1)
             longest == {q \in shorter : Len(q) = n - 1}
         IN shorter \cup
            UNION {{Append(q, x) :
                       x \in {y \in S : \A i \in 1..Len(q) : q[i] # y}} :
                   q \in longest}

\* The subsequences of at most n elements of the sequence list.
RECURSIVE SubSeqsUpTo(_, _)
SubSeqsUpTo(list, n) ==
    IF n = 0 \/ list = <<>> THEN {<<>>}
    ELSE SubSeqsUpTo(Tail(list), n)
         \cup {<<Head(list)>> \o q : q \in SubSeqsUpTo(Tail(list), n - 1)}

\* The items of a dataset whose mean keys are those of mids, in that order,
\* each followed by its stddev key, with the values of means and stddevs.
RECURSIVE ItemsOf(_, _, _)
ItemsOf(mids, means, stddevs) ==
    IF mids = <<>> THEN <<>>
    ELSE << [key |-> MeanKey(Head(mids)), value |-> Head(means)],
            [key |-> StddevKey(Head(mids)), value |-> Head(stddevs)] >>
         \o ItemsOf(Tail(mids), Tail(means), Tail(stddevs))

\* The datasets of one taxonomy over the given sequences of keys.
DatasetsOver(taxonomy, midSeqs) ==
    UNION {{[taxonomy |-> taxonomy, imt |-> "pga", imu |-> "g",
             items |-> ItemsOf(mids, means, stddevs)] :
               means \in [1..Len(mids) -> Means],
               stddevs \in [1..Len(mids) -> Stddevs]} :
           mids \in midSeqs}

Definition(shape, datasets) ==
    [meta |-> [shape |-> shape, id |-> "SARA_v1.0"], data |-> datasets]

\* First family: one dataset, its keys any keys in any order.
AnyKeyInputs ==
    {Definition(shape, <<dataset>>) :
        shape \in Shapes,
        dataset \in DatasetsOver("URM1", SeqsUpTo(AllMids, MaxKeys))}

\* Second family: two datasets, of the same or of two taxonomies.
TwoDatasetInputs ==
    {Definition(shape, <<first, second>>) :
        shape \in Shapes,
        first \in DatasetsOver("URM1", SubSeqsUpTo(OrderedMids, MaxKeys)),
        second \in UNION {DatasetsOver(t, SubSeqsUpTo(OrderedMids, MaxKeys)) :
                             t \in Taxonomies}}

\* Third family: one dataset of either taxonomy.
OneDatasetInputs ==
    {Definition(shape, <<dataset>>) :
        shape \in Shapes,
        dataset \in UNION {DatasetsOver(t, SubSeqsUpTo(OrderedMids, MaxKeys)) :
                              t \in Taxonomies}}

\* The taxonomies the provider is asked for; the last is in no definition.
LookupTaxonomies == Taxonomies \cup {"UNKNOWN"}

\* The intensities a damage state is evaluated at.
Intensities == {3, 20}

Units == {"g", "m/s2"}

\* The sets of measure names of a reading.
MeasureSets == {{}, {"PGA"}, {"pga"}}

\* The dicts with one of the key sets and values of vals.
DictsOver(keySets, vals) == UNION {[keySet -> vals] : keySet \in keySets}

\* Fourth family: one dataset with a baseline and a later transition.
EvaluatedMids == << <<"1">>, <<"_", "1", "_", "2">> >>

EvaluatedInputs ==
    {Definition(shape, <<dataset>>) :
        shape \in Shapes,
        dataset \in DatasetsOver("URM1", SubSeqsUpTo(EvaluatedMids, MaxKeys))}

\* Fifth family: the third one in the log-normal shape.
UpdatedInputs == {d \in OneDatasetInputs : d.meta.shape = "logncdf"}

\* Sixth family: the fourth one in the log-normal shape.
LossInputs == {d \in EvaluatedInputs : d.meta.shape = "logncdf"}

\* Seventh family: one dataset that gives transitions to the state 4 from
\* any of the states below it, the one from 0 in one or both conventions.
SublevelMids ==
    << <<"_", "0", "_", "4">>, <<"4">>, <<"_", "1", "_", "4">>,
       <<"_", "2", "_", "4">>, <<"_", "3", "_", "4">> >>

SublevelInputs ==
    {Definition(shape, <<dataset>>) :
        shape \in Shapes,
        dataset \in DatasetsOver("URM1",
                                 SubSeqsUpTo(SublevelMids, Len(SublevelMids))
                                     \ {<<>>})}

\* Eighth family: one log-normal dataset with both baselines and the
\* transition between the two damaged states.
ChainedInputs ==
    {Definition("logncdf", <<dataset>>) :
        dataset \in DatasetsOver("URM1",
                                 {<< <<"1">>, <<"2">>,
                                     <<"_", "1", "_", "2">> >>})}

\* The long names, the ids and the values of custom columns, and the lists
\* of ids asked for; no value is ever set for the id 3.
LongNames ==
    {"Transitions from damage state 0", "Transitions from damage state 1",
     "Buildings in URM1 per damage state"}

ColumnIds == {1, 2}

ColumnValues == {"{}", "{1: 2}"}

IdArrays == {<<>>, <<1>>, <<2, 1>>, <<1, 3>>, <<2, 2>>}

\* The transitions and the expo of a feature: none, one row, several
\* rows, and rows of which two are of the same transition or of the same
\* taxonomy and damage state.
Transition(from_ds, to_ds, n) ==
    [from_damage_state |-> from_ds, to_damage_state |-> to_ds,
     n_buildings |-> n]

ExpoRow(taxonomy, state, number) ==
    [Taxonomy |-> taxonomy, Damage |-> DamageLabel(state),
     Buildings |-> number]

FeatureTransitions ==
    {<<>>, <<Transition(0, 1, 1)>>,
     <<Transition(0, 1, 1), Transition(0, 2, 2)>>,
     <<Transition(0, 1, 1), Transition(1, 2, 1), Transition(0, 1, 2)>>}

FeatureExpos ==
    {<<>>, <<ExpoRow("URM1", 0, 2)>>,
     <<ExpoRow("URM1", 0, 1), ExpoRow("URM1", 1, 2), ExpoRow("CM", 1, 1)>>,
     <<ExpoRow("URM1", 1, 1), ExpoRow("URM1", 1, 2)>>}

FeaturesOf(gid) ==
    {[gid |-> gid, loss_value |-> losses[1], cum_loss_value |-> losses[2],
      transitions |-> transitions_dict, expo |-> expo_dict] :
        losses \in {<<0, 0>>, <<1, 3>>},
        transitions_dict \in FeatureTransitions,
        expo_dict \in FeatureExpos}

\* The feature collections: of no, one or two features.
FeatureCollections ==
    {<<>>} \cup {<<f>> : f \in FeaturesOf(1)}
        \cup {<<f, g>> : f \in FeaturesOf(1), g \in FeaturesOf(2)}

\* The cumulative losses of a cell at the start.
InitialLosses == {0, 3}

\* The exposure of a cell without buildings.
NoExposure ==
    [taxonomy \in Taxonomies |-> [state \in ExposureStates |-> 0]]

\* The exposures of a cell at the start: buildings of the first taxonomy in
\* any states, buildings of the others undamaged.
Exposures ==
    {[taxonomy \in Taxonomies |->
         [state \in ExposureStates |->
             IF taxonomy = CellTaxonomies[1] THEN first[state]
             ELSE IF state = 0 THEN others ELSE 0]] :
        first \in [ExposureStates -> 0..MaxCount], others \in 0..MaxCount}

\* The identifiers of the cells of a snapshot, in the order of the snapshot.
Gids == <<"c", "a", "b">>

\* The snapshots: every cell has one building of the first taxonomy, and
\* the cells are at places of the same intensity.
Snapshots ==
    {[i \in 1..Len(Gids) |->
         [gid |-> Gids[i], exposure |-> e[i], intensity |-> value,
          transitions |-> {}]] :
        e \in [1..Len(Gids) ->
                  {x \in Exposures :
                      /\ Total(x[CellTaxonomies[1]]) = 1
                      /\ Total(x[CellTaxonomies[2]]) = 0}],
        value \in Intensities}

\* The raster of the test: three rows of three cells of one degree, the
\* top left corner at (14, 52), here at (1, 3).  Its bounds are those of
\* the three by three cells: the right edge is at 17, here 4, the bottom at
\* 49, here 0.
TestRaster ==
    [bounds |-> [left |-> 1, bottom |-> 0, right |-> 4, top |-> 3],
     res |-> 1,
     data |-> <<<<17, 18, 19>>, <<14, 15, 16>>, <<11, 12, 13>>>>]

\* A raster of two rows of two cells of two degrees.
CoarseRaster ==
    [bounds |-> [left |-> 0, bottom |-> 0, right |-> 4, top |-> 4],
     res |-> 2,
     data |-> <<<<21, 22>>, <<23, 24>>>>]

\* RasterIntensityProvider(raster_wrapper, kind, unit, na_value)
RasterIntensityProvider(raster, kind, unit, na_value) ==
    [variant |-> "raster", raster |-> raster, kind |-> kind, unit |-> unit,
     na_value |-> na_value, inner |-> <<>>]

\* IntensityProvider(records)
IntensityProvider(records) ==
    [variant |-> "table", records |-> records, inner |-> <<>>]

\* AliasIntensityProvider(inner, aliases)
AliasIntensityProvider(inner, aliases) ==
    [variant |-> "alias", aliases |-> aliases, inner |-> <<inner>>]

\* StackedIntensityProvider(*layers)
StackedIntensityProvider(layers) ==
    [variant |-> "stacked", inner |-> layers]

\* The (mean, stddev) the factories are called with.
FactoryKeys == {<<1, 1>>, <<2, 1>>, <<1, 2>>}

\* The intensity values at which the functions are compared.
ComparedValues == {-1, 0, 1, 3, 20}

\* No intensity provider.
NoProvider == [variant |-> "none", inner |-> <<>>]

\* The locations asked for: those of the bounding box of the raster and
\* those one degree around it.
Lons == 0..5

Lats == -1..4

RasterProviders ==
    {RasterIntensityProvider(TestRaster, "MWH", "unitless", 0),
     RasterIntensityProvider(TestRaster, "PGA", "unitless", 99)}

\* The sets of measures of the located records.
TableMeasures ==
    {{}, {"PGA"}, {"MWH"}, {"INUN_MEAN_POLY"}, {"MWH", "INUN_MEAN_POLY"},
     {"ID", "INUN_MEAN_POLY"}}

\* The value of the first record and the unit of a table.
TableValues == {<<10, "g">>, <<20, "m">>}

\* Two located records with the same measures and unit and values that
\* differ by the place of the record.
TableProviders ==
    {IntensityProvider(
         <<[lon |-> 1, lat |-> 1,
            intensities |-> [m \in measures |-> v[1]],
            units |-> [m \in measures |-> v[2]]],
           [lon |-> 3, lat |-> 3,
            intensities |-> [m \in measures |-> v[1] + 1],
            units |-> [m \in measures |-> v[2]]]>>) :
        measures \in TableMeasures, v \in TableValues}

\* The aliases of deus, in the order of their declaration.
DeusAliases ==
    <<[alias |-> "SA_01", candidates |-> <<"PGA">>],
      [alias |-> "SA_03", candidates |-> <<"PGA">>],
      [alias |-> "ID", candidates |-> <<"MWH", "INUN_MEAN_POLY">>]>>

AliasSets ==
    {DeusAliases,
     <<[alias |-> "ID", candidates |-> <<"INUN_MEAN_POLY", "MWH">>]>>}

BaseProviders == RasterProviders \cup TableProviders

\* The providers with an alias decorator over a base provider.
AliasProviders ==
    {AliasIntensityProvider(inner, aliases) :
        inner \in BaseProviders, aliases \in AliasSets}

\* The providers of two layers of base providers.
StackedProviders ==
    {StackedIntensityProvider(<<first, second>>) :
        first \in BaseProviders, second \in BaseProviders}

\* The decorators over decorators.
NestedProviders ==
    {AliasIntensityProvider(inner, aliases) :
        inner \in StackedProviders, aliases \in AliasSets}
    \cup {StackedIntensityProvider(<<first, second>>) :
            first \in AliasProviders, second \in BaseProviders}

Providers ==
    BaseProviders \cup AliasProviders \cup StackedProviders
        \cup NestedProviders

\* --------------------------------------------------------------- state

VARIABLES
    data,         \* Fragility._data
    pc,           \* "constructed", "loaded" (a provider exists) or "failed"
    provider,     \* the FragilityProvider, or None
    functions,    \* the heap of CachedFunction objects
    caches,       \* the cache of the factory of each family
    last,         \* the last call and its outcome
    initial,      \* the exposure of the cell before the first update
    old_exposure, \* the exposure the last update read
    exposure,     \* the exposure of the cell now, times Scale^events
    expo,         \* the expo table of the cell now, its rows in order
    transitions,  \* the transitions the last update recorded
    stays,        \* the buildings the last update left in their state
    events,       \* the number of updates that went through
    loss,         \* the losses of the cell: of the last update, cumulative
    pool,         \* the snapshot, its cells at the workers and the result
    intensity_provider, \* the intensity provider
    made,         \* the direct calls of the factories so far, with results
    custom_cols,  \* the CustomColumnGenerator of create_shapefile
    data_in,      \* the feature collection create_shapefile reads
    summary       \* what create_shapefile wrote, or nothing yet

vars ==
    <<data, pc, provider, functions, caches, last, initial, old_exposure,
      exposure, expo, transitions, stays, events, loss, pool,
      intensity_provider,
      made, custom_cols, data_in, summary>>

sideVars == <<pool, intensity_provider, made>>

outVars == <<custom_cols, data_in, summary>>

cellVars ==
    <<initial, old_exposure, exposure, expo, transitions, stays, events, loss>>

NoCall ==
    [op |-> "", raised |-> "", taxonomy |-> "", state |-> 0,
     intensity |-> EmptyDict, units |-> EmptyDict, value |-> 0,
     returned |-> <<>>, keys |-> {}, lon |-> 0, lat |-> 0, read |-> FALSE,
     cached |-> FALSE, in_bbox |-> FALSE, long_name |-> "", id |-> 0,
     text |-> "", id_array |-> <<>>]

\* The losses of a cell with the cumulative loss c and no update so far.
NoLoss(c) ==
    [loss_value |-> 0, cum_loss_value |-> c, old_cum_loss_value |-> c,
     initial_cum_loss_value |-> c, loss_values |-> <<>>]

\* A fragility definition just constructed.
FragilityInit(inputs) ==
    /\ data \in inputs
    /\ pc = "constructed"
    /\ provider = None
    /\ functions = <<>>
    /\ caches = [family \in Shapes |-> EmptyDict]
    /\ last = NoCall

\* A cell of an exposure just read.
CellInit(exposures, cum_loss_values) ==
    /\ initial \in exposures
    /\ old_exposure = initial
    /\ exposure = initial
    /\ expo = expo_of_cell(initial)
    /\ transitions = {}
    /\ stays = {}
    /\ events = 0
    /\ loss \in {NoLoss(c) : c \in cum_loss_values}

\* The pool of workers before the run on a snapshot: no cell is taken.
NewPool(snapshot) ==
    [input |-> snapshot,
     tasks |-> [i \in 1..Len(snapshot) |-> "queued"],
     results |-> snapshot,
     finished |-> <<>>,
     state |-> "running",
     output |-> <<>>]

\* No snapshot and no workers.
NoPool == NewPool(<<>>)

\* create_shapefile has not run.
NoSummary ==
    /\ custom_cols = CustomColumnGenerator(<<"c">>)
    /\ data_in = <<>>
    /\ summary = <<>>

InitOn(inputs, exposures) ==
    /\ FragilityInit(inputs)
    /\ CellInit(exposures, {0})
    /\ pool = NoPool
    /\ intensity_provider = NoProvider
    /\ made = {}
    /\ NoSummary

\* Fragility(data).to_fragility_provider()
ToFragilityProvider ==
    /\ pc = "constructed"
    /\ LET out == to_fragility_provider(data, functions, caches)
       IN /\ provider' = out.provider
          /\ functions' = out.functions
          /\ caches' = out.caches
          /\ pc' = IF out.raised = "" THEN "loaded" ELSE "failed"
          /\ last' = [NoCall EXCEPT !.op = "to_fragility_provider",
                                    !.raised = out.raised]
    /\ UNCHANGED <<outVars, data, cellVars, sideVars>>

\* provider.get_damage_states_for_taxonomy(taxonomy)
GetDamageStatesForTaxonomy ==
    /\ pc = "loaded"
    /\ \E taxonomy \in LookupTaxonomies :
          LET out == get_damage_states_for_taxonomy(provider, taxonomy)
          IN /\ provider' = out.provider
             /\ last' = [NoCall EXCEPT
                             !.op = "get_damage_states_for_taxonomy",
                             !.taxonomy = taxonomy,
                             !.returned = out.returned]
    /\ UNCHANGED <<outVars, data, pc, functions, caches, cellVars, sideVars>>

\* provider.get_taxonomies()
GetTaxonomies ==
    /\ pc = "loaded"
    /\ last' = [NoCall EXCEPT !.op = "get_taxonomies",
                              !.keys = get_taxonomies(provider)]
    /\ UNCHANGED <<outVars, data, pc, provider, functions, caches, cellVars, sideVars>>

\* ds.get_probability_for_intensity(intensity, units) of a damage state of
\* the provider
GetProbabilityForIntensity ==
    /\ pc = "loaded"
    /\ \E taxonomy \in DOMAIN provider.damage_states_by_taxonomy :
       \E n \in 1..Len(provider.damage_states_by_taxonomy[taxonomy]) :
       \E intensity \in DictsOver(MeasureSets, Intensities) :
       \E units \in DictsOver(MeasureSets, Units) :
          LET ds == provider.damage_states_by_taxonomy[taxonomy][n]
              out == get_probability_for_intensity(functions, ds, intensity,
                                                   units)
          IN /\ functions' = out.functions
             /\ last' = [NoCall EXCEPT
                             !.op = "get_probability_for_intensity",
                             !.taxonomy = taxonomy,
                             !.state = n,
                             !.intensity = intensity,
                             !.units = units,
                             !.raised = out.raised,
                             !.value = out.value,
                             !.cached = /\ out.raised = ""
                                        /\ out.functions = functions]
    /\ UNCHANGED <<outVars, data, pc, provider, caches, cellVars, sideVars>>

\* One run of the update on the cell, for the reading of one hazard event.
\* A run that raises writes no exposure.
UpdateExposure ==
    /\ pc = "loaded"
    /\ events < MaxEvents
    /\ \E value \in Intensities : \E unit \in Units :
          \E run \in {update_exposure(exposure, provider, functions,
                                      [m \in {"PGA"} |-> value],
                                      [m \in {"PGA"} |-> unit])} :
             /\ functions' = run.functions
             /\ provider' = run.provider
             /\ last' = [NoCall EXCEPT !.op = "update_exposure",
                                       !.intensity = [m \in {"PGA"} |-> value],
                                       !.units = [m \in {"PGA"} |-> unit],
                                       !.raised = run.raised]
             /\ IF run.raised = ""
                THEN /\ old_exposure' = exposure
                     /\ exposure' = run.exposure
                     /\ expo' = expo_of_records(run.stays \cup run.transitions)
                     /\ transitions' = run.transitions
                     /\ stays' = run.stays
                     /\ events' = events + 1
                     /\ loss' =
                           [loss EXCEPT
                               !.loss_value = LossOfCell(run.exposure),
                               !.old_cum_loss_value = loss.cum_loss_value,
                               !.cum_loss_value =
                                   CumulativeLoss(loss.cum_loss_value,
                                                  LossOfCell(run.exposure)),
                               !.loss_values =
                                   Append(@, LossOfCell(run.exposure))]
                ELSE UNCHANGED <<old_exposure, exposure, expo, transitions, stays,
                                 events, loss>>
    /\ UNCHANGED <<outVars, data, pc, caches, initial, sideVars>>

\* A free worker takes a cell of the snapshot that waits.
TakeCell ==
    /\ pc = "loaded"
    /\ pool.state = "running"
    /\ Cardinality({i \in DOMAIN pool.tasks : pool.tasks[i] = "taken"})
           < Workers
    /\ \E i \in DOMAIN pool.tasks :
          /\ pool.tasks[i] = "queued"
          /\ pool' = [pool EXCEPT !.tasks[i] = "taken"]
          /\ last' = [NoCall EXCEPT !.op = "take_cell", !.state = i]
    /\ UNCHANGED <<outVars, data, pc, provider, functions, caches, cellVars,
                   intensity_provider, made>>

\* A worker finishes the update of its cell.  A worker whose update raises
\* ends the run.
FinishCell ==
    /\ pc = "loaded"
    /\ pool.state = "running"
    /\ \E i \in DOMAIN pool.tasks :
          /\ pool.tasks[i] = "taken"
          /\ \E out \in {update_cell(pool.input[i], provider, functions)} :
                /\ pool' =
                      IF out.raised # ""
                      THEN [pool EXCEPT !.state = "failed"]
                      ELSE [pool EXCEPT !.tasks[i] = "done",
                                        !.results[i] = out.cell,
                                        !.finished = Append(@, i)]
                /\ last' = [NoCall EXCEPT !.op = "finish_cell",
                                          !.state = i,
                                          !.raised = out.raised]
    /\ UNCHANGED <<outVars, data, pc, provider, functions, caches, cellVars,
                   intensity_provider, made>>

\* The results of all workers are put together and written.
WriteResult ==
    /\ pc = "loaded"
    /\ pool.state = "running"
    /\ pool.input # <<>>
    /\ \A i \in DOMAIN pool.tasks : pool.tasks[i] = "done"
    /\ pool' = [pool EXCEPT !.state = "written",
                            !.output = Gather(pool.results, pool.finished)]
    /\ last' = [NoCall EXCEPT !.op = "write_result"]
    /\ UNCHANGED <<outVars, data, pc, provider, functions, caches, cellVars,
                   intensity_provider, made>>

\* intensity_provider.get_nearest(lon, lat)
GetNearest ==
    /\ intensity_provider.variant # "none"
    /\ \E lon \in Lons : \E lat \in Lats :
       \E out \in {get_nearest(intensity_provider, lon, lat)} :
          last' = [NoCall EXCEPT !.op = "get_nearest",
                                 !.lon = lon,
                                 !.lat = lat,
                                 !.raised = out.raised,
                                 !.intensity = out.intensities,
                                 !.units = out.units,
                                 !.read = out.read]
    /\ UNCHANGED <<outVars, data, pc, provider, functions, caches, cellVars, sideVars>>

\* raster.is_location_in_bbox(lon, lat) and raster.get_sample(lon, lat) on
\* the raster of a raster provider, at any location.
GetSample ==
    /\ intensity_provider.variant = "raster"
    /\ \E lon \in Lons : \E lat \in Lats :
       \E sample \in {get_sample(intensity_provider.raster, lon, lat)} :
          last' = [NoCall EXCEPT
                      !.op = "get_sample",
                      !.lon = lon,
                      !.lat = lat,
                      !.in_bbox = is_location_in_bbox(
                                      intensity_provider.raster, lon, lat),
                      !.raised = sample.raised,
                      !.value = sample.value,
                      !.read = TRUE]
    /\ UNCHANGED <<outVars, data, pc, provider, functions, caches, cellVars, sideVars>>

\* custom_cols.set_value_for_custom_column(long_name, id, value)
SetValueForCustomColumn ==
    /\ \E long_name \in LongNames : \E id \in ColumnIds :
       \E value \in ColumnValues :
          /\ custom_cols' = set_value_for_custom_column(custom_cols,
                                                        long_name, id, value)
          /\ last' = [NoCall EXCEPT !.op = "set_value_for_custom_column",
                                    !.long_name = long_name,
                                    !.id = id,
                                    !.text = value]
    /\ UNCHANGED <<data, pc, provider, functions, caches, cellVars, sideVars,
                   data_in, summary>>

\* custom_cols.full_columns(id_array)
FullColumns ==
    /\ \E id_array \in IdArrays :
          last' = [NoCall EXCEPT !.op = "full_columns",
                                 !.id_array = id_array,
                                 !.returned = full_columns(custom_cols,
                                                           id_array)]
    /\ UNCHANGED <<outVars, data, pc, provider, functions, caches, cellVars,
                   sideVars>>

\* custom_cols.get_custom_column_mapping()
GetCustomColumnMapping ==
    /\ last' = [NoCall EXCEPT !.op = "get_custom_column_mapping",
                              !.returned =
                                  get_custom_column_mapping(custom_cols)]
    /\ UNCHANGED <<outVars, data, pc, provider, functions, caches, cellVars,
                   sideVars>>

\* create_shapefile.py <jsonfile>: main on the features of the file
CreateShapefile ==
    /\ summary = <<>>
    /\ \E out \in {main(data_in)} :
          /\ summary' = <<[df |-> out.df, meta_summary |-> out.meta_summary]>>
          /\ custom_cols' = out.custom_cols
    /\ last' = [NoCall EXCEPT !.op = "create_shapefile"]
    /\ UNCHANGED <<data, pc, provider, functions, caches, cellVars, sideVars,
                   data_in>>

\* SUPPORTED_FRAGILITY_FUNCTION_FACTORIES[family](mean, stddev)
CallFactory ==
    /\ \E family \in Shapes : \E key \in FactoryKeys :
       \E out \in {FactoryCall(functions, caches, family, key[1], key[2])} :
          /\ functions' = out.functions
          /\ caches' = out.caches
          /\ made' = made \cup {[family |-> family, mean |-> key[1],
                                 stddev |-> key[2], fn |-> out.fn]}
          /\ last' = [NoCall EXCEPT !.op = "factory", !.value = out.fn]
    /\ UNCHANGED <<outVars, data, pc, provider, cellVars, pool, intensity_provider>>

\* Loading a fragility definition.
Init == InitOn(AnyKeyInputs \cup TwoDatasetInputs, {NoExposure})

Next == ToFragilityProvider

Spec == Init /\ [][Next]_vars

\* Loading and the lookups of the provider.
InitLookup == InitOn(OneDatasetInputs, {NoExposure})

NextLookup ==
    \/ ToFragilityProvider
    \/ GetDamageStatesForTaxonomy
    \/ GetTaxonomies

SpecLookup == InitLookup /\ [][NextLookup]_vars

\* Loading and the evaluation of damage states.
InitEval == InitOn(EvaluatedInputs, {NoExposure})

NextEval ==
    \/ ToFragilityProvider
    \/ GetProbabilityForIntensity

SpecEval == InitEval /\ [][NextEval]_vars

\* Loading and the updates of the exposure of a cell.
InitUpdate == InitOn(UpdatedInputs, Exposures)

NextUpdate ==
    \/ ToFragilityProvider
    \/ UpdateExposure

SpecUpdate == InitUpdate /\ [][NextUpdate]_vars

\* Loading and a chain of updates of a cell whose definition gives three
\* transitions.
SpecChained == InitOn(ChainedInputs, Exposures) /\ [][NextUpdate]_vars

\* Loading and the updates of a cell that has a cumulative loss already.
InitLoss ==
    /\ FragilityInit(LossInputs)
    /\ CellInit(Exposures, InitialLosses)
    /\ pool = NoPool
    /\ intensity_provider = NoProvider
    /\ made = {}
    /\ NoSummary

SpecLoss == InitLoss /\ [][NextUpdate]_vars

\* Loading and the update of a snapshot by workers in parallel.
InitParallel ==
    /\ FragilityInit(LossInputs)
    /\ CellInit({NoExposure}, {0})
    /\ pool \in {NewPool(snapshot) : snapshot \in Snapshots}
    /\ intensity_provider = NoProvider
    /\ made = {}
    /\ NoSummary

NextParallel ==
    \/ ToFragilityProvider
    \/ TakeCell
    \/ FinishCell
    \/ WriteResult

SpecParallel == InitParallel /\ [][NextParallel]_vars

\* The lookups of an intensity provider.
InitIntensity ==
    /\ FragilityInit({Definition("logncdf", <<>>)})
    /\ CellInit({NoExposure}, {0})
    /\ pool = NoPool
    /\ intensity_provider \in Providers
    /\ made = {}
    /\ NoSummary

NextIntensity == GetNearest

SpecIntensity == InitIntensity /\ [][NextIntensity]_vars

\* The calls of the function factories.
InitFactory == InitOn({Definition("logncdf", <<>>)}, {NoExposure})

NextFactory == CallFactory

SpecFactory == InitFactory /\ [][NextFactory]_vars

\* The lookups in a raster.
InitRaster ==
    /\ FragilityInit({Definition("logncdf", <<>>)})
    /\ CellInit({NoExposure}, {0})
    /\ pool = NoPool
    /\ intensity_provider \in
           {RasterIntensityProvider(raster, kind, "unitless", 0) :
               raster \in {TestRaster, CoarseRaster}, kind \in {"MWH", "PGA"}}
    /\ made = {}
    /\ NoSummary

NextRaster ==
    \/ GetSample
    \/ GetNearest

SpecRaster == InitRaster /\ [][NextRaster]_vars

\* The calls of a generator of custom columns.
InitColumns == InitOn({Definition("logncdf", <<>>)}, {NoExposure})

NextColumns ==
    \/ SetValueForCustomColumn
    \/ FullColumns
    \/ GetCustomColumnMapping

SpecColumns == InitColumns /\ [][NextColumns]_vars

\* The summary of a feature collection.
InitShapefile ==
    /\ FragilityInit({Definition("logncdf", <<>>)})
    /\ CellInit({NoExposure}, {0})
    /\ pool = NoPool
    /\ intensity_provider = NoProvider
    /\ made = {}
    /\ custom_cols = CustomColumnGenerator(<<"c">>)
    /\ data_in \in FeatureCollections
    /\ summary = <<>>

NextShapefile == CreateShapefile

SpecShapefile == InitShapefile /\ [][NextShapefile]_vars

\* Loading a definition with sublevels.
InitSublevel == InitOn(SublevelInputs, {NoExposure})

SpecSublevel == InitSublevel /\ [][Next]_vars

\* ------------------------------------------------------ reading the state

\* The mean keys of the datasets of one taxonomy, in the order in which
\* they are parsed, each with its values.
RECURSIVE KeysOfTaxonomyIn(_, _)
KeysOfTaxonomyIn(datasets, taxonomy) ==
    IF datasets = <<>> THEN <<>>
    ELSE LET dataset == Head(datasets)
             keys == MeanKeys(dataset)
             own == [n \in 1..Len(keys) |->
                        [key |-> keys[n],
                         mean |-> ValueOf(dataset, keys[n]),
                         stddev |-> ValueOf(dataset,
                                            ReplaceMeanByStddev(keys[n]))]]
         IN (IF dataset.taxonomy = taxonomy THEN own ELSE <<>>)
            \o KeysOfTaxonomyIn(Tail(datasets), taxonomy)

KeysOfTaxonomy(taxonomy) == KeysOfTaxonomyIn(data.data, taxonomy)

\* The key D{n}_mean and the key D_{i}_{j}_mean of numbers below ten.
ShortKey(n) == MeanKey(<<DigitString[n + 1]>>)

LongKey(i, j) == MeanKey(<<"_", DigitString[i + 1], "_", DigitString[j + 1]>>)

IsShortKey(key) == \E n \in 0..9 : key = ShortKey(n)

IsLongKey(key) == \E i, j \in 0..9 : i # j /\ key = LongKey(i, j)

\* The transition a key of one of the two conventions names.
NamedFrom(key) ==
    IF IsShortKey(key) THEN 0
    ELSE CHOOSE i \in 0..9 : \E j \in 0..9 : key = LongKey(i, j)

NamedTo(key) ==
    IF IsShortKey(key) THEN CHOOSE n \in 0..9 : key = ShortKey(n)
    ELSE CHOOSE j \in 0..9 : \E i \in 0..9 : key = LongKey(i, j)

\* A key that names a transition to a later state.
IsValidKey(key) ==
    \/ \E n \in 1..9 : key = ShortKey(n)
    \/ \E i, j \in 0..9 : i < j /\ key = LongKey(i, j)

\* The damage states the provider holds for a taxonomy.
StatesOf(taxonomy) == provider.damage_states_by_taxonomy[taxonomy]

\* The places of the transition (i, j) in the list of a taxonomy.
Places(taxonomy, i, j) ==
    {n \in 1..Len(StatesOf(taxonomy)) :
        /\ StatesOf(taxonomy)[n].from_state = i
        /\ StatesOf(taxonomy)[n].to_state = j}

\* The datasets of a taxonomy give the transitions (0, k), k = 1..N, each
\* once, in either convention, and nothing else.
BaselineOnly(taxonomy, N) ==
    LET keys == KeysOfTaxonomy(taxonomy)
    IN /\ Len(keys) = N
       /\ \A k \in 1..N :
             \E n \in 1..N : keys[n].key \in {ShortKey(k), LongKey(0, k)}

\* The damage state of the last evaluation.
EvaluatedState == StatesOf(last.taxonomy)[last.state]

\* ------------------------------------------------------------------ claims

\* C1: lattice completeness.  When the datasets of a taxonomy give only the
\* baseline transitions (0, k) for k = 1..N, the provider holds exactly one
\* damage state for every (i, j) with 0 <= i < j <= N, and for i >= 1 the
\* function of (i, j) is the very object that is the function of (0, j).
LatticeCompleteness ==
    pc = "loaded" =>
        \A taxonomy \in Taxonomies : \A N \in 1..9 :
            BaselineOnly(taxonomy, N) =>
                /\ taxonomy \in get_taxonomies(provider)
                /\ \A i, j \in 0..N :
                      i < j =>
                        /\ Cardinality(Places(taxonomy, i, j)) = 1
                        /\ \A n \in Places(taxonomy, i, j) :
                           \A m \in Places(taxonomy, 0, j) :
                              StatesOf(taxonomy)[n].fragility_function
                                  = StatesOf(taxonomy)[m].fragility_function

\* C1, its case: a taxonomy given by (0, 1) and (0, 2) with two different
\* functions has been loaded and (1, 2) has been filled in.
LatticeCompletenessWitness ==
    /\ pc = "loaded"
    /\ BaselineOnly("URM1", 2)
    /\ Places("URM1", 1, 2) # {}
    /\ \E n \in Places("URM1", 0, 1) : \E m \in Places("URM1", 0, 2) :
          StatesOf("URM1")[n].fragility_function
              # StatesOf("URM1")[m].fragility_function

\* All mean keys of the definition name a transition to a later state.
AllKeysValid ==
    \A d \in 1..Len(data.data) :
    \A n \in 1..Len(MeanKeys(data.data[d])) :
        IsValidKey(MeanKeys(data.data[d])[n])

\* C2: every damage state of a provider that to_fragility_provider built,
\* parsed or filled in, has 0 <= from_state < to_state.  Stated for the
\* definitions all of whose keys name a transition to a later state, so that
\* every parsed damage state has from_state < to_state.
DamageStatesAscend ==
    (pc = "loaded" /\ AllKeysValid) =>
        \A taxonomy \in get_taxonomies(provider) :
        \A n \in 1..Len(StatesOf(taxonomy)) :
            /\ 0 <= StatesOf(taxonomy)[n].from_state
            /\ StatesOf(taxonomy)[n].from_state < StatesOf(taxonomy)[n].to_state

\* C3: for every definition that is accepted and every taxonomy of the
\* provider, every (i, j) with 0 <= i < j <= max_state has exactly one damage
\* state in the list of the taxonomy.
ExactlyOneStatePerPair ==
    pc = "loaded" =>
        \A taxonomy \in get_taxonomies(provider) :
        \A i, j \in 0..MaxToState(StatesOf(taxonomy)) :
            i < j => Cardinality(Places(taxonomy, i, j)) = 1

\* C4: unit mismatch detection.  An evaluation whose units mapping gives, for
\* the field of the damage state, a unit other than the declared one raises,
\* and it leaves the heap, and so the cache of the function, as it was.
UnitMismatchDetection ==
    [][(/\ last'.op = "get_probability_for_intensity"
        /\ EvaluatedState'.intensity_field \in DOMAIN last'.units
        /\ last'.units[EvaluatedState'.intensity_field]
               # EvaluatedState'.intensity_unit)
       => (last'.raised # "" /\ functions' = functions)]_vars

\* C4, its case: values and units both have the field, the unit is another
\* one, and the evaluation has raised the unit error.
UnitMismatchWitness ==
    /\ last.op = "get_probability_for_intensity"
    /\ EvaluatedState.intensity_field \in DOMAIN last.intensity
    /\ EvaluatedState.intensity_field \in DOMAIN last.units
    /\ last.units[EvaluatedState.intensity_field] # EvaluatedState.intensity_unit
    /\ last.raised = "Not supported unit"

\* C5: missing measure.  An evaluation raises whenever the upper-cased field
\* of the damage state is no key of the values or no key of the units; a
\* measure given under a key of another case counts as missing.
MissingMeasureFails ==
    (/\ last.op = "get_probability_for_intensity"
     /\ \/ Upper(EvaluatedState.intensity_field) \notin DOMAIN last.intensity
        \/ Upper(EvaluatedState.intensity_field) \notin DOMAIN last.units)
    => last.raised # ""

\* C5, its case: the measure is given as "pga" in values and units, with the
\* declared unit, for a state whose field is "PGA", and the evaluation raised.
MissingMeasureWitness ==
    /\ last.op = "get_probability_for_intensity"
    /\ EvaluatedState.intensity_field = "PGA"
    /\ DOMAIN last.intensity = {"pga"}
    /\ DOMAIN last.units = {"pga"}
    /\ last.units["pga"] = EvaluatedState.intensity_unit
    /\ last.raised = "KeyError"

\* All mean keys of the definition follow one of the two conventions.
AllKeysConventional ==
    \A d \in 1..Len(data.data) :
    \A n \in 1..Len(MeanKeys(data.data[d])) :
        IsShortKey(MeanKeys(data.data[d])[n])
            \/ IsLongKey(MeanKeys(data.data[d])[n])

\* C6: transition-name parsing.  A definition whose keys are D{n}_mean or
\* D_{i}_{j}_mean (i # j) is loaded, and for every taxonomy the k-th key of
\* its datasets gives the k-th damage state of its list: from 0 to n, or
\* from i to j, with the function of the family of the definition for the
\* values of the key and of its stddev key; the list holds as many damage
\* states of a transition as keys name it.
TransitionNameParsing ==
    (pc # "constructed" /\ AllKeysConventional) =>
        /\ pc = "loaded"
        /\ \A taxonomy \in Taxonomies :
              LET keys == KeysOfTaxonomy(taxonomy)
              IN \A k \in 1..Len(keys) :
                   /\ taxonomy \in get_taxonomies(provider)
                   /\ Len(StatesOf(taxonomy)) >= Len(keys)
                   /\ LET ds == StatesOf(taxonomy)[k]
                          fn == functions[ds.fragility_function]
                      IN /\ ds.taxonomy = taxonomy
                         /\ ds.from_state = NamedFrom(keys[k].key)
                         /\ ds.to_state = NamedTo(keys[k].key)
                         /\ fn.family = data.meta.shape
                         /\ fn.mean = keys[k].mean
                         /\ fn.stddev = keys[k].stddev
                         /\ Cardinality(Places(taxonomy, ds.from_state,
                                               ds.to_state))
                              = Cardinality(
                                    {m \in 1..Len(keys) :
                                        /\ NamedFrom(keys[m].key)
                                               = ds.from_state
                                        /\ NamedTo(keys[m].key)
                                               = ds.to_state})

\* C6, its case: a loaded dataset with a key D{n}_mean and a key
\* D_{i}_{j}_mean with i >= 1.
TransitionNameParsingWitness ==
    /\ pc = "loaded"
    /\ AllKeysConventional
    /\ \E k, m \in 1..Len(KeysOfTaxonomy("URM1")) :
          /\ IsShortKey(KeysOfTaxonomy("URM1")[k].key)
          /\ IsLongKey(KeysOfTaxonomy("URM1")[m].key)
          /\ NamedFrom(KeysOfTaxonomy("URM1")[m].key) >= 1
          /\ KeysOfTaxonomy("URM1")[k].mean # KeysOfTaxonomy("URM1")[m].mean

\* The keys C7 gives as examples of a malformed name: D_2_1_mean,
\* D_0_12_mean, D10_mean, Dx_mean.
MalformedExamples ==
    {LongKey(2, 1), MeanKey(<<"_", "0", "_", "1", "2">>),
     MeanKey(<<"1", "0">>), MeanKey(<<"x">>)}

\* C7: malformed fragility definition.  When a key that starts with "D" and
\* ends with "_mean" names no transition (from_state, to_state) with
\* from_state < to_state, to_fragility_provider raises and gives no
\* provider.  Stated for the keys the claim gives as examples.
MalformedDefinitionFails ==
    (/\ pc # "constructed"
     /\ \E d \in 1..Len(data.data) :
        \E n \in 1..Len(MeanKeys(data.data[d])) :
            MeanKeys(data.data[d])[n] \in MalformedExamples)
    => (pc = "failed" /\ provider = None)

\* C8: unmapped taxonomy.  The lookup of a taxonomy that no dataset of the
\* definition names never answers with an empty collection: it raises.
UnmappedTaxonomyFails ==
    (/\ last.op = "get_damage_states_for_taxonomy"
     /\ KeysOfTaxonomy(last.taxonomy) = <<>>)
    => (last.raised # "" \/ last.returned # <<>>)

\* ------------------------------------------------------- exposure updates

\* The sum of the building counts of a set of records.
RECURSIVE SumOf(_)
SumOf(records) ==
    IF records = {} THEN 0
    ELSE LET r == CHOOSE x \in records : TRUE
         IN r.n_buildings + SumOf(records \ {r})

\* What the last update made of the buildings of a state of a taxonomy.
SharesFrom(taxonomy, s) ==
    {r \in transitions \cup stays :
        r.taxonomy = taxonomy /\ r.from_state = s}

\* What the last update put in a state of a taxonomy.
SharesTo(taxonomy, t) ==
    {r \in transitions \cup stays :
        r.taxonomy = taxonomy /\ r.to_state = t}

UpdateWentThrough == last.op = "update_exposure" /\ last.raised = ""

\* C9: mass conservation.  After an update that went through, the shares
\* of the b buildings of every occupied state of every taxonomy of the cell
\* sum to b, the count of every state is the sum of the shares that went to
\* it, and so after any number of updates the total of each taxonomy is its
\* total at the start (all counts being held times Scale per update).
MassConservation ==
    /\ UpdateWentThrough =>
          \A taxonomy \in Taxonomies :
              /\ \A s \in ExposureStates :
                    old_exposure[taxonomy][s] > 0 =>
                        SumOf(SharesFrom(taxonomy, s))
                            = Scale * old_exposure[taxonomy][s]
              /\ \A t \in ExposureStates :
                    exposure[taxonomy][t] = SumOf(SharesTo(taxonomy, t))
    /\ \A taxonomy \in Taxonomies :
          Total(exposure[taxonomy])
              = (Scale ^ events) * Total(initial[taxonomy])

\* C9 (witness): a second update went through, in which some buildings
\* moved to a higher state and some stayed.
MassConservationWitness ==
    /\ UpdateWentThrough
    /\ events > 1
    /\ \E r \in transitions : r.n_buildings > 0
    /\ \E r \in stays :
          /\ r.n_buildings > 0
          /\ r.n_buildings < Scale * old_exposure[r.taxonomy][r.from_state]

\* C10: every building count of the cell and every recorded transition
\* count is non-negative.
CountsNonNegative ==
    /\ \A taxonomy \in Taxonomies : \A s \in ExposureStates :
          exposure[taxonomy][s] >= 0
    /\ \A r \in transitions : r.n_buildings >= 0

\* The losses of the updates from the k-th on, brought to the scale of the
\* counts after the last one.
RECURSIVE SumOfLosses(_, _)
SumOfLosses(loss_values, k) ==
    IF k > Len(loss_values) THEN 0
    ELSE loss_values[k] * (Scale ^ (Len(loss_values) - k))
             + SumOfLosses(loss_values, k + 1)

\* C11: after every update that went through the cumulative loss of the
\* cell is its cumulative loss before the update plus the loss of the
\* update, after n updates it is the cumulative loss at the start plus the
\* sum of the n losses, and it did not decrease if the loss of the update is
\* not negative (all sums at the scale of the counts, Scale per update).
CumulativeLossAdds ==
    /\ UpdateWentThrough =>
          /\ loss.cum_loss_value
                 = Scale * loss.old_cum_loss_value + loss.loss_value
          /\ loss.loss_value >= 0 =>
                 loss.cum_loss_value >= Scale * loss.old_cum_loss_value
    /\ Len(loss.loss_values) = events
    /\ loss.cum_loss_value
           = (Scale ^ events) * loss.initial_cum_loss_value
                 + SumOfLosses(loss.loss_values, 1)

\* C11 (witness): a second update with a loss went through on a cell that
\* had a cumulative loss at the start and a loss in the first update.
CumulativeLossAddsWitness ==
    /\ UpdateWentThrough
    /\ events > 1
    /\ loss.initial_cum_loss_value > 0
    /\ loss.loss_value > 0
    /\ loss.loss_values[1] > 0

\* ------------------------------------------------------ parallel workers

\* C12: whenever the result of a run of the workers is written, it lists
\* the cells in the order of the input, by their identifiers, and the cell
\* at every place is the update of the cell of the input at that place, in
\* whatever order the workers took and finished the cells.
OutputInInputOrder ==
    pool.state = "written" =>
        /\ Len(pool.output) = Len(pool.input)
        /\ \A i \in 1..Len(pool.input) :
              /\ pool.output[i].gid = pool.input[i].gid
              /\ pool.output[i]
                     = update_cell(pool.input[i], provider, functions).cell

\* C12 (witness): a result is written of a run in which the workers did not
\* finish in the order of the input, on cells that the update changes and
\* that differ from each other.
OutputInInputOrderWitness ==
    /\ pool.state = "written"
    /\ \E k \in 1..(Len(pool.finished) - 1) :
          pool.finished[k] > pool.finished[k + 1]
    /\ \A i \in 1..Len(pool.input) :
          pool.output[i].exposure # pool.input[i].exposure
    /\ \E i, j \in 1..Len(pool.input) :
          pool.output[i].exposure # pool.output[j].exposure

\* ------------------------------------------------------ intensity lookups

RasterLookup ==
    /\ last.op = "get_nearest"
    /\ intensity_provider.variant # "none"
    /\ intensity_provider.variant = "raster"

OutOfBounds ==
    \/ last.lon < intensity_provider.raster.bounds.left
    \/ last.lon > intensity_provider.raster.bounds.right
    \/ last.lat < intensity_provider.raster.bounds.bottom
    \/ last.lat > intensity_provider.raster.bounds.top

\* C13: the lookup of a raster provider at a location left of, right of,
\* below or above the bounding box raises nothing, gives the not-available
\* value as the value of the measure and the unit of the provider as its
\* unit, and does not read the data array.
OutOfBoundsGivesSentinel ==
    (RasterLookup /\ OutOfBounds) =>
        /\ last.raised = ""
        /\ last.intensity
               = [m \in {intensity_provider.kind} |->
                     intensity_provider.na_value]
        /\ last.units
               = [m \in {intensity_provider.kind} |-> intensity_provider.unit]
        /\ ~last.read

\* C13 (witness): a lookup above the bounding box, between its left and its
\* right, by a provider whose not-available value is not zero.
OutOfBoundsGivesSentinelWitness ==
    /\ RasterLookup
    /\ last.lat > intensity_provider.raster.bounds.top
    /\ last.lon > intensity_provider.raster.bounds.left
    /\ last.lon < intensity_provider.raster.bounds.right
    /\ intensity_provider.na_value # 0
    /\ last.intensity
           = [m \in {intensity_provider.kind} |-> intensity_provider.na_value]

\* The result of layer k of the stacked provider at the location of the
\* last lookup.
LayerReading(k) ==
    get_nearest(intensity_provider.inner[k], last.lon, last.lat)

\* The layers of the stacked provider that have the measure m at the
\* location of the last lookup.
LayersWith(m) ==
    {k \in 1..Len(intensity_provider.inner) :
        m \in DOMAIN LayerReading(k).intensities}

\* The last declared of them.
LastLayerWith(m) ==
    CHOOSE k \in LayersWith(m) : \A j \in LayersWith(m) : j <= k

StackedLookup ==
    /\ last.op = "get_nearest"
    /\ intensity_provider.variant = "stacked"

\* C14: the values and the units that a stacked provider returns have as
\* keys the measures of all its layers at the location, and the value and
\* the unit of every measure are those of the last declared layer that has
\* the measure (of its only layer, if only one has it).  The lookup raises
\* only where one of its layers does, and then has no mappings to return.
StackingUnionLastWins ==
    /\ (StackedLookup /\ last.raised # "") =>
          \E k \in 1..Len(intensity_provider.inner) :
              LayerReading(k).raised = last.raised
    /\ (StackedLookup
           /\ \A k \in 1..Len(intensity_provider.inner) :
                 LayerReading(k).raised = "") =>
        /\ last.raised = ""
        /\ DOMAIN last.intensity
               = UNION {DOMAIN LayerReading(k).intensities :
                           k \in 1..Len(intensity_provider.inner)}
        /\ DOMAIN last.units
               = UNION {DOMAIN LayerReading(k).units :
                           k \in 1..Len(intensity_provider.inner)}
        /\ \A m \in DOMAIN last.intensity :
              /\ last.intensity[m]
                     = LayerReading(LastLayerWith(m)).intensities[m]
              /\ last.units[m] = LayerReading(LastLayerWith(m)).units[m]

\* C14 (witness): a lookup of a stacked provider in which one measure is
\* in both layers, with values and units that differ, and another measure is
\* in the first layer only.
StackingUnionLastWinsWitness ==
    /\ StackedLookup
    /\ \E m \in DOMAIN last.intensity :
          /\ LayersWith(m) = {1, 2}
          /\ LayerReading(1).intensities[m] # LayerReading(2).intensities[m]
          /\ LayerReading(1).units[m] # LayerReading(2).units[m]
    /\ \E m \in DOMAIN last.intensity : LayersWith(m) = {1}

AliasLookup ==
    /\ last.op = "get_nearest"
    /\ intensity_provider.variant = "alias"

\* The result of the provider that the alias provider wraps, at the
\* location of the last lookup.
WrappedReading == get_nearest(intensity_provider.inner[1], last.lon, last.lat)

\* The candidate at place j of an alias is the first one that the wrapped
\* result has.
IsFirstPresent(candidates, j) ==
    /\ candidates[j] \in DOMAIN WrappedReading.intensities
    /\ \A i \in 1..(j - 1) :
          candidates[i] \notin DOMAIN WrappedReading.intensities

\* C15: the result of an alias provider has every measure of the wrapped
\* result with its value and unit (an alias that the wrapped result has
\* among them); an alias that the wrapped result lacks has the value and the
\* unit of the first of its candidates that the wrapped result has, and is
\* not in the result if there is none; nothing else is in the result.
AliasingFirstCandidate ==
    AliasLookup =>
        /\ last.raised = WrappedReading.raised
        /\ \A m \in DOMAIN WrappedReading.intensities :
              /\ m \in DOMAIN last.intensity
              /\ last.intensity[m] = WrappedReading.intensities[m]
              /\ last.units[m] = WrappedReading.units[m]
        /\ \A k \in 1..Len(intensity_provider.aliases) :
              LET a == intensity_provider.aliases[k]
              IN a.alias \notin DOMAIN WrappedReading.intensities =>
                    IF \E j \in 1..Len(a.candidates) :
                          IsFirstPresent(a.candidates, j)
                    THEN \E j \in 1..Len(a.candidates) :
                            /\ IsFirstPresent(a.candidates, j)
                            /\ a.alias \in DOMAIN last.intensity
                            /\ last.intensity[a.alias]
                                   = WrappedReading.intensities[a.candidates[j]]
                            /\ last.units[a.alias]
                                   = WrappedReading.units[a.candidates[j]]
                    ELSE /\ a.alias \notin DOMAIN last.intensity
                         /\ a.alias \notin DOMAIN last.units
        /\ DOMAIN last.intensity
               \subseteq DOMAIN WrappedReading.intensities
                   \cup {intensity_provider.aliases[k].alias :
                            k \in 1..Len(intensity_provider.aliases)}

\* C15 (witness): a lookup with the aliases of deus on a result that has
\* MWH and INUN_MEAN_POLY with values and units that differ, and neither ID
\* nor PGA: ID is added with the value of MWH, SA_01 is not added.
AliasingFirstCandidateWitness ==
    /\ AliasLookup
    /\ intensity_provider.aliases = DeusAliases
    /\ {"MWH", "INUN_MEAN_POLY"} \subseteq DOMAIN WrappedReading.intensities
    /\ "ID" \notin DOMAIN WrappedReading.intensities
    /\ "PGA" \notin DOMAIN WrappedReading.intensities
    /\ WrappedReading.intensities["MWH"]
           # WrappedReading.intensities["INUN_MEAN_POLY"]
    /\ WrappedReading.units["MWH"] # WrappedReading.units["INUN_MEAN_POLY"]
    /\ last.intensity["ID"] = WrappedReading.intensities["MWH"]
    /\ "SA_01" \notin DOMAIN last.intensity

\* C18: whatever the nesting of alias and stacked decorators over base
\* providers, the values and the units of every lookup have the same keys.
ValuesAndUnitsHaveSameKeys ==
    (last.op = "get_nearest" /\ last.raised = "") =>
        DOMAIN last.intensity = DOMAIN last.units

\* C18 (witness): a lookup of an alias provider over a stacked provider
\* that added an alias to the measures of the two layers.
ValuesAndUnitsHaveSameKeysWitness ==
    /\ last.op = "get_nearest"
    /\ intensity_provider.variant = "alias"
    /\ intensity_provider.inner[1].variant = "stacked"
    /\ "ID" \notin DOMAIN WrappedReading.intensities
    /\ "ID" \in DOMAIN last.units
    /\ Cardinality(DOMAIN last.intensity) > 2

\* ---------------------------------------------------------------- caches

\* C16: of the calls of the factories so far, two with the same family,
\* mean and stddev returned the same function object, whatever calls were
\* made between them, and two that differ in family, mean or stddev
\* returned different objects.
SameKeySameFunction ==
    \A a, b \in made :
        (a.family = b.family /\ a.mean = b.mean /\ a.stddev = b.stddev)
            <=> a.fn = b.fn

\* C16 (witness): a key was called again after calls of the other family,
\* of another mean and of another stddev, and the heap did not grow.
SameKeySameFunctionWitness ==
    /\ last.op = "factory"
    /\ last.value = 1
    /\ Len(functions) > 3
    /\ \E a, b, c \in made :
          /\ functions[1].family # functions[a.fn].family
          /\ functions[1].family = functions[b.fn].family
          /\ functions[1].mean # functions[b.fn].mean
          /\ functions[1].family = functions[c.fn].family
          /\ functions[1].stddev # functions[c.fn].stddev

\* Every value in the cache of a function is what its inner function gives.
CachesHoldInnerValues ==
    \A id \in 1..Len(functions) : \A v \in DOMAIN functions[id].cache :
        functions[id].cache[v] = inner_function(functions[id], v)

\* An evaluation of the damage state ds at value v returns what the inner
\* function gives; if v is in the cache it returns the cached result and
\* nothing changes (the inner function is not called again), and if not,
\* the result is put into the cache of that function and nothing else is.
EvaluationThroughCache ==
    (last'.op = "get_probability_for_intensity" /\ last'.raised = ""
        /\ last' # last) =>
        LET ds == provider.damage_states_by_taxonomy[last'.taxonomy][
                      last'.state]
            id == ds.fragility_function
            v == last'.intensity[ds.intensity_field]
        IN /\ last'.value = inner_function(functions[id], v)
           /\ v \in DOMAIN functions[id].cache =>
                 /\ last'.value = functions[id].cache[v]
                 /\ functions' = functions
           /\ v \notin DOMAIN functions[id].cache =>
                 functions' = [functions EXCEPT
                                  ![id].cache = DictSet(@, v, last'.value)]

\* No step takes a value out of a cache or changes it.
CachesKeepValues ==
    \A id \in 1..Len(functions) : \A v \in DOMAIN functions[id].cache :
        /\ id <= Len(functions')
        /\ v \in DOMAIN functions'[id].cache
        /\ functions'[id].cache[v] = functions[id].cache[v]

\* C17: every call of a CachedFunction, through whatever damage state
\* that has it, returns what the inner function gives for the value; a call
\* with a value that was given before returns the same result from the
\* cache, which is never emptied, so that the inner function is called at
\* most once for a value.
CacheIdempotence ==
    /\ []CachesHoldInnerValues
    /\ [][EvaluationThroughCache /\ CachesKeepValues]_vars

\* C17 (witness): an evaluation answered from the cache, through a damage
\* state that has its function in common with another damage state, of a
\* function that has two values in its cache.
CacheIdempotenceWitness ==
    /\ last.op = "get_probability_for_intensity"
    /\ last.cached
    /\ LET states == provider.damage_states_by_taxonomy[last.taxonomy]
       IN /\ \E n \in 1..Len(states) :
                /\ n # last.state
                /\ states[n].fragility_function
                       = states[last.state].fragility_function
          /\ Cardinality(DOMAIN functions[
                 states[last.state].fragility_function].cache) > 1

LookupKeepsProvider ==
    pc = "loaded" =>
        /\ get_taxonomies(provider') = get_taxonomies(provider)
        /\ \A taxonomy \in get_taxonomies(provider) :
              provider'.damage_states_by_taxonomy[taxonomy]
                  = provider.damage_states_by_taxonomy[taxonomy]

\* C20: no call of get_damage_states_for_taxonomy, with a taxonomy the
\* provider has or one it has not, and no call of get_taxonomies changes the
\* taxonomies of the provider or the damage states of a taxonomy.
ProviderIsReadOnly == [][LookupKeepsProvider]_vars

\* The number of damage states the parsing of the datasets gave a taxonomy:
\* they are the first ones of its list.
ParsedCount(taxonomy) == Len(KeysOfTaxonomy(taxonomy))

\* The places of the parsed damage states of (f, t) and of the synthesized
\* ones in the list of a taxonomy.
ExplicitPlaces(taxonomy, f, t) ==
    {n \in Places(taxonomy, f, t) : n <= ParsedCount(taxonomy)}

FilledPlaces(taxonomy, f, t) ==
    {n \in Places(taxonomy, f, t) : n > ParsedCount(taxonomy)}

\* The first place of a set of places that is not empty.
FirstPlace(places) == CHOOSE n \in places : \A m \in places : n <= m

\* Every synthesized damage state is at a pair (f, t) that had no damage
\* state before it, and copies the taxonomy, the to_state, the intensity
\* field and unit and the function of the first one found at (f - 1, t).
SynthesizedCopyLower ==
    \A taxonomy \in get_taxonomies(provider) :
        \A n \in (ParsedCount(taxonomy) + 1)..Len(StatesOf(taxonomy)) :
            LET ds_new == StatesOf(taxonomy)[n]
                before == {m \in Places(taxonomy, ds_new.from_state,
                                        ds_new.to_state) : m < n}
                lower == {m \in Places(taxonomy, ds_new.from_state - 1,
                                       ds_new.to_state) : m < n}
            IN /\ before = {}
               /\ lower # {}
               /\ \E ds_lower \in {StatesOf(taxonomy)[FirstPlace(lower)]} :
                     /\ ds_new.taxonomy = ds_lower.taxonomy
                     /\ ds_new.to_state = ds_lower.to_state
                     /\ ds_new.intensity_field = ds_lower.intensity_field
                     /\ ds_new.intensity_unit = ds_lower.intensity_unit
                     /\ ds_new.fragility_function = ds_lower.fragility_function

\* The parsed damage states are all there, in the order of the keys, as the
\* keys and the values of the datasets give them.
ParsedStatesKept ==
    \A taxonomy \in get_taxonomies(provider) :
        /\ ParsedCount(taxonomy) <= Len(StatesOf(taxonomy))
        /\ \A n \in 1..ParsedCount(taxonomy) :
              LET ds == StatesOf(taxonomy)[n]
                  given == KeysOfTaxonomy(taxonomy)[n]
              IN /\ ds.taxonomy = taxonomy
                 /\ ds.from_state = NamedFrom(given.key)
                 /\ ds.to_state = NamedTo(given.key)
                 /\ ds.intensity_field = "PGA"
                 /\ ds.intensity_unit = "g"
                 /\ functions[ds.fragility_function].family = data.meta.shape
                 /\ functions[ds.fragility_function].mean = given.mean
                 /\ functions[ds.fragility_function].stddev = given.stddev

\* With (0, t) and (e, t), e >= 1, among the parsed damage states, every
\* synthesized (i, t) with i > e has the function of a parsed (e, t) and
\* every synthesized (i, t) with 0 < i < e the function of a parsed (0, t).
SharesFunctionOfAnyExplicit ==
    \A taxonomy \in get_taxonomies(provider) : \A t \in 0..9 : \A e \in 1..9 :
        (ExplicitPlaces(taxonomy, 0, t) # {}
            /\ ExplicitPlaces(taxonomy, e, t) # {}) =>
          \A i \in 1..9 : \A n \in FilledPlaces(taxonomy, i, t) :
              /\ i > e =>
                    \E m \in ExplicitPlaces(taxonomy, e, t) :
                        StatesOf(taxonomy)[n].fragility_function
                            = StatesOf(taxonomy)[m].fragility_function
              /\ i < e =>
                    \E m \in ExplicitPlaces(taxonomy, 0, t) :
                        StatesOf(taxonomy)[n].fragility_function
                            = StatesOf(taxonomy)[m].fragility_function

\* Every synthesized (i, t) has the function of the first parsed damage
\* state of (e, t), where e is the highest state below i that the datasets
\* give a transition to t from.
SharesFunctionOfNearestExplicit ==
    \A taxonomy \in get_taxonomies(provider) : \A t \in 0..9 :
        \A i \in 1..9 : \A n \in FilledPlaces(taxonomy, i, t) :
            LET below == {e \in 0..(i - 1) :
                             ExplicitPlaces(taxonomy, e, t) # {}}
            IN /\ below # {}
               /\ \E e \in below :
                     /\ \A other \in below : other <= e
                     /\ StatesOf(taxonomy)[n].fragility_function
                           = StatesOf(taxonomy)[
                                 FirstPlace(ExplicitPlaces(taxonomy, e, t))
                             ].fragility_function

\* C21 as stated: lattice completion step.  A synthesized damage state of a
\* missing pair (f, t) copies the taxonomy, to_state, intensity field and
\* unit and the function reference of the entry found at (f - 1, t); parsed
\* damage states are not removed, replaced or modified; and with (0, t) and
\* an explicit (e, t), e >= 1, every filled (i, t) with i > e shares the
\* function of (e, t) and every filled (i, t) with 0 < i < e shares the
\* function of (0, t).
LatticeCompletionStepAsStated ==
    pc = "loaded" =>
        /\ SynthesizedCopyLower
        /\ ParsedStatesKept
        /\ SharesFunctionOfAnyExplicit

\* C21, amended: the same copying and keeping, and every filled (i, t)
\* shares the function of the first-listed explicit (e, t) of the highest
\* e < i for which one is supplied.
LatticeCompletionStep ==
    pc = "loaded" =>
        /\ SynthesizedCopyLower
        /\ ParsedStatesKept
        /\ SharesFunctionOfNearestExplicit

\* C21, its case: (0, 4) and (2, 4) are supplied with two different
\* functions, (1, 4) has been filled in with the function of (0, 4) and
\* (3, 4) with the function of (2, 4).
LatticeCompletionStepWitness ==
    /\ pc = "loaded"
    /\ ParsedCount("URM1") = 2
    /\ ExplicitPlaces("URM1", 0, 4) # {}
    /\ ExplicitPlaces("URM1", 2, 4) # {}
    /\ \E n \in FilledPlaces("URM1", 1, 4) : \E m \in FilledPlaces("URM1", 3, 4) :
          /\ StatesOf("URM1")[n].fragility_function
                = StatesOf("URM1")[1].fragility_function
          /\ StatesOf("URM1")[m].fragility_function
                = StatesOf("URM1")[2].fragility_function
          /\ StatesOf("URM1")[1].fragility_function
                # StatesOf("URM1")[2].fragility_function

\* The buildings of a taxonomy that are in a state >= k in the counts.
AtLeast(counts, k) ==
    Total([s \in {x \in DOMAIN counts : x >= k} |-> counts[s]])

\* C22: damage never decreases.  Every transition an update records goes
\* from a state to a higher one that is not above the highest state of the
\* fragility model of the taxonomy, what the update made of the buildings
\* of a state is in that state or in higher ones, and for every taxonomy
\* and every state k there are not fewer buildings in the states >= k after
\* an update than before it, nor after any number of updates than at the
\* start (all counts being held times Scale per update).  A negative count
\* (C10) that a later update redistributes takes buildings out of the
\* states above it, so this fails on a chain of three updates.
DamageNeverDecreases ==
    /\ \A r \in transitions :
          /\ r.from_state < r.to_state
          /\ r.to_state <= MaxToState(StatesOf(r.taxonomy))
    /\ \A r \in stays : r.to_state = r.from_state
    /\ UpdateWentThrough =>
          \A taxonomy \in Taxonomies : \A k \in ExposureStates :
              AtLeast(exposure[taxonomy], k)
                  >= Scale * AtLeast(old_exposure[taxonomy], k)
    /\ \A taxonomy \in Taxonomies : \A k \in ExposureStates :
          AtLeast(exposure[taxonomy], k)
              >= (Scale ^ events) * AtLeast(initial[taxonomy], k)

\* The rows of the expo table of the cell for a taxonomy and damage state.
RowsOf(taxonomy, state) ==
    {n \in DOMAIN expo :
        /\ expo[n].Taxonomy = taxonomy
        /\ expo[n].Damage = DamageLabel(state)}

CoversExactly ==
    LET raster == intensity_provider.raster
    IN /\ raster.bounds.right - raster.bounds.left
             = Len(raster.data[1]) * raster.res
       /\ raster.bounds.top - raster.bounds.bottom
             = Len(raster.data) * raster.res

\* The cells (row, column), counted from 0, of the raster of the provider
\* that contain the location of the last call, their edges included.
CellsContaining ==
    LET raster == intensity_provider.raster
    IN {cell \in (0..(Len(raster.data) - 1))
                     \X (0..(Len(raster.data[1]) - 1)) :
           /\ raster.bounds.left + cell[2] * raster.res <= last.lon
           /\ last.lon <= raster.bounds.left + (cell[2] + 1) * raster.res
           /\ raster.bounds.top - (cell[1] + 1) * raster.res <= last.lat
           /\ last.lat <= raster.bounds.top - cell[1] * raster.res}

\* C24: in-bounds grid lookup is safe.  For a raster whose bounds cover
\* exactly its data array, get_sample at every location for which
\* is_location_in_bbox is true, the right and the bottom edge included,
\* raises no index error, takes an index inside the data array, and gives
\* the value of a cell that contains the location.
InBoundsLookupIsSafe ==
    (last.op = "get_sample" /\ CoversExactly /\ last.in_bbox) =>
        /\ last.raised = ""
        /\ \E cell \in CellsContaining :
              /\ cell = raster_index(intensity_provider.raster, last.lon,
                                     last.lat)
              /\ last.value
                    = intensity_provider.raster.data[cell[1] + 1][cell[2] + 1]

\* ------------------------------------------------------- custom columns

\* The value a generator holds for a column and an id: what full_columns
\* gives for the id in the list of the column, None without the column.
ValueAt(g, col_name, id) ==
    LET columns == full_columns(g, <<id>>)
    IN IF HasItem(columns, col_name) THEN ItemOf(columns, col_name)[1]
       ELSE None

\* The column names a generator has given, and all it can give here.
ColumnNames(g) ==
    {g.custom_column_names[n].value : n \in DOMAIN g.custom_column_names}

AllColumnNames == {<<"c">> \o Decimal(n) : n \in 1..Cardinality(LongNames)}

\* Distinct long names have distinct column names, and the column names
\* are prefix1 .. prefix(count - 1) in the order in which the long names
\* came.
ColumnNamesInOrder ==
    LET names == custom_cols.custom_column_names
    IN /\ \A i, j \in DOMAIN names :
             i # j => /\ names[i].key # names[j].key
                      /\ names[i].value # names[j].value
       /\ Len(names) = custom_cols.count - 1
       /\ \A i \in DOMAIN names :
             names[i].value = custom_cols.prefix \o Decimal(i)

\* What get_custom_column_mapping returned is the inverse of the mapping of
\* the long names to the column names.
MappingIsInverse ==
    last.op = "get_custom_column_mapping" =>
        LET names == custom_cols.custom_column_names
        IN /\ Len(last.returned) = Len(names)
           /\ \A i \in DOMAIN names :
                 /\ HasItem(last.returned, names[i].value)
                 /\ ItemOf(last.returned, names[i].value) = names[i].key
           /\ \A n \in DOMAIN last.returned :
                 /\ HasItem(names, last.returned[n].value)
                 /\ ItemOf(names, last.returned[n].value)
                       = last.returned[n].key

\* What full_columns returned has a list for every column, of as many
\* entries as ids were given, each the value the generator holds for the
\* column and the id.
FullColumnsAreFull ==
    last.op = "full_columns" =>
        /\ {last.returned[n].key : n \in DOMAIN last.returned}
               = ColumnNames(custom_cols)
        /\ \A n, m \in DOMAIN last.returned :
              last.returned[n].key = last.returned[m].key => n = m
        /\ \A n \in DOMAIN last.returned :
              /\ Len(last.returned[n].value) = Len(last.id_array)
              /\ \A i \in DOMAIN last.id_array :
                    last.returned[n].value[i]
                        = ValueAt(custom_cols, last.returned[n].key,
                                  last.id_array[i])

\* A call of set_value_for_custom_column leaves every long name the column
\* name it has, gives a new long name the next column name, after all the
\* others, sets the value of its column and id and leaves every other
\* value as it is; no other call changes the generator.
SetValueStep ==
    IF last'.op = "set_value_for_custom_column"
    THEN LET names == custom_cols.custom_column_names
             col_name == ItemOf(custom_cols'.custom_column_names,
                                last'.long_name)
         IN /\ HasItem(custom_cols'.custom_column_names, last'.long_name)
            /\ custom_cols'.custom_column_names
                  = IF HasItem(names, last'.long_name) THEN names
                    ELSE Append(names, [key |-> last'.long_name,
                                        value |-> col_name])
            /\ ValueAt(custom_cols', col_name, last'.id) = last'.text
            /\ \A other \in AllColumnNames : \A id \in ColumnIds \cup {3} :
                  (other # col_name \/ id # last'.id) =>
                      ValueAt(custom_cols', other, id)
                          = ValueAt(custom_cols, other, id)
    ELSE custom_cols' = custom_cols

\* C25: custom column naming.  After any sequence of calls of
\* set_value_for_custom_column distinct long names have distinct column
\* names, a long name keeps the column name of its first use, the column
\* names are prefix1 .. prefix(count - 1) in the order of first appearance,
\* get_custom_column_mapping is the inverse of the mapping of the long names
\* to the column names, and full_columns(ids) gives for every column a list
\* of len(ids) entries with the last value set for the column and the id,
\* None where none was set.
CustomColumnNaming ==
    /\ [](ColumnNamesInOrder /\ MappingIsInverse /\ FullColumnsAreFull)
    /\ [][SetValueStep]_vars

\* C25, its case: three long names have come, not in the order of their
\* spelling, the columns were asked for an id and for an id without any
\* value, and the list of the first column holds the value of the first id
\* and None while the third column has no value for either.
CustomColumnNamingWitness ==
    /\ last.op = "full_columns"
    /\ last.id_array = <<1, 3>>
    /\ custom_cols.count = 4
    /\ custom_cols.custom_column_names[1].key
           = "Transitions from damage state 1"
    /\ custom_cols.custom_column_names[3].key
           = "Buildings in URM1 per damage state"
    /\ ItemOf(last.returned, <<"c", "1">>) = <<"{1: 2}", None>>
    /\ ItemOf(last.returned, <<"c", "3">>) = <<None, None>>

\* ------------------------------------------------------------- summary

\* The sum of the numbers of a list.
RECURSIVE SumOfList(_)
SumOfList(list) ==
    IF list = <<>> THEN 0 ELSE Head(list) + SumOfList(Tail(list))

\* The buildings of the transitions (f, t) of the features read.
RECURSIVE MovedIn(_, _, _)
MovedIn(rows, f, t) ==
    IF rows = <<>> THEN 0
    ELSE (IF Head(rows).from_damage_state = f
             /\ Head(rows).to_damage_state = t
          THEN Head(rows).n_buildings ELSE 0) + MovedIn(Tail(rows), f, t)

MovedInAll(f, t) ==
    SumOfList([n \in DOMAIN data_in |-> MovedIn(data_in[n].transitions, f, t)])

\* total["transition_matrix_from_damage_state"][f][t], 0 without an entry
TotalMoved(f, t) ==
    LET m == summary[1].meta_summary.total.transition_matrix_from_damage_state
    IN IF HasItem(m, f) /\ t \in DOMAIN ItemOf(m, f) THEN ItemOf(m, f)[t]
       ELSE 0

\* C26: summary consistency.  For every feature collection the totals that
\* create_shapefile writes agree with the columns of the features: the
\* total loss_value and cum_loss are the sums of the columns loss_value and
\* cum_loss, the total transition matrix holds at (f, t) the sum of the
\* n_buildings of the (f, t) transitions of all the features, and the sum
\* over the damage states of the total buildings_by_damage_state is the sum
\* of the column buildings.
SummaryConsistency ==
    summary # <<>> =>
        LET df == summary[1].df
            total == summary[1].meta_summary.total
        IN /\ total.loss_value = SumOfList(df.loss_value)
           /\ total.cum_loss = SumOfList(df.cum_loss)
           /\ \A f, t \in ExposureStates : TotalMoved(f, t) = MovedInAll(f, t)
           /\ Total(total.buildings_by_damage_state) = SumOfList(df.buildings)

====
